---------------------------- MODULE Spec2Model ----------------------------
(***************************************************************************)
(* A model of WebRecon's scan engine: the resumable cache of ScanManager   *)
(* (src/scanners/base_scanner.py), the wordlist queue of Scanner, the      *)
(* worker pool of ContentScanner (src/scanners/content_scanner.py), the    *)
(* OutputManager (src/WebRecon/scanners/utils/output_manager.py), the      *)
(* DNSScanner pool (src/WebRecon/scanners/subdomain_scanner.py) and the    *)
(* orchestrator WebRecon (src/WebRecon/WebRecon.py).                       *)
(*                                                                         *)
(* Files are records [exists, data]; a wordlist's data is the sequence of  *)
(* its lines (tokens are small integers, line i of the scenario wordlists  *)
(* is the token i), a results artifact's data is what was written to it.   *)
(***************************************************************************)
EXTENDS Integers, Sequences, FiniteSets, TLC

VARIABLES
    \* ---- Scanner.load_words on its own (SpecLoadWords)
    lw_wordlist,        \* the file at self.wordlist_path
    lw_finished,        \* self._cache_dict["finished"]
    lw_out,             \* what load_words gave: "unset" | "queue" | "raise", and the queue
    \* ---- the cache of ScanManager (SpecCache)
    RUN_ID,             \* ScanManager._RUN_ID of the running process
    now,                \* time.time()
    wordlistFile,       \* the file at wordlist_path
    resultsFile,        \* per scan kind, the file at _get_results_fullpath()
    cacheFile,          \* the CacheDocument at _get_cache_fullpath()
    inst,               \* the scanner objects of the running process
    trustedInRun,       \* the scan kinds whose record this process has trusted (history)
    last,               \* the last cache operation and what it met (history)
    \* ---- OutputManager (SpecDashboard)
    OUTPUT_CONT,        \* _OUTPUT_CONT: per output type, the blocks in insertion order
    OUTPUT_LEN,         \* _OUTPUT_LEN
    term,               \* the line removes of the last _clear, the lines of the last _flush
    drawn,              \* the lines the last _flush wrote, in the order written
    registered,         \* the blocks registered, in the order of their insert_output (history)
    dpc,                \* per thread: where it stands in update_status / update_lines
    \* ---- the worker pool of ContentScanner (SpecScan, SpecPool); the scanner
    \*      object is inst["a"], its files are the cache model's
    target,             \* what the target answers: per base token and for the extension variants
    SHOULD_ABORT,       \* ScanManager._SHOULD_ABORT
    process,            \* "none" | "running" | "killed" (os.kill(os.getpid(), 9))
    main,               \* where start_scanner / _start_scanner stands
    words_queue,        \* self.words_queue
    pc,                 \* where each worker thread of single_bruter stands
    attempt,            \* per worker: the token dequeued
    brute,              \* per worker: the index in attempt_list of the request
    found_any,          \* per worker
    save_iter,          \* per worker: len(ret_results) when its items() iteration began
    results_str,        \* per worker: the text _save_results built
    cache_json,         \* the document _update_cache_results read, while it holds _CACHE_MUTEX
    req_log,            \* per worker: what each request of the token in hand ended in (history)
    \* ---- WebRecon, the orchestrator (SpecRecon)
    cfg,                \* the arguments of the run: dns_recursion, the classes of self._scans
    state,              \* the State the WebRecon object reports
    opc,                \* where start_recon stands
    domains,            \* the queue _setup_targets builds and start_recon drains
    self_domains,       \* self.domains, the queue given to DNSScanner
    cur,                \* the target popped and the index in self._scans of the launch loop
    total_count,        \* total_count of start_recon
    recon_results,      \* self.recon_results
    summaryFile,        \* the file results_summary.txt
    scan_status,        \* per scan kind of the target: "idle" | "running" | "finished"
    thread_started,     \* the scan kinds whose threading.Thread was started
    scan_state,         \* the State the scanner object reports
    hist,               \* what has happened in the run (history)
    \* ---- two scanner objects persisting under ScanManager._CACHE_MUTEX (SpecLock)
    CACHE_MUTEX,        \* the holder of the lock: "free" or a scanner object
    lpc,                \* per scanner object: where its thread stands in _save_results
    ljson,              \* per scanner object: the cache_json it read
    written,            \* per scanner object: the record it last wrote to the document (history)
    \* ---- the progress status of one scanner object (SpecProgress)
    prog,               \* its counts, self._current_progress_perc, the progress bars emitted (history)
    \* ---- the locks of the scanner objects and the threads that take them (SpecLockOrder)
    tprog,              \* per thread: the lock steps left of the method it is in
    held                \* per thread: the locks it holds, in the order taken (one entry per acquire)

lwVars == <<lw_wordlist, lw_finished, lw_out>>

cacheVars == <<RUN_ID, now, wordlistFile, resultsFile, cacheFile, inst, trustedInRun, last>>

dashVars == <<OUTPUT_CONT, OUTPUT_LEN, term, drawn, registered, dpc>>

poolVars == <<target, SHOULD_ABORT, process, main, words_queue, pc, attempt, brute,
              found_any, save_iter, results_str, cache_json, req_log>>

reconVars == <<cfg, state, opc, domains, self_domains, cur, total_count, recon_results,
               summaryFile, scan_status, thread_started, scan_state, hist>>

lockVars == <<CACHE_MUTEX, lpc, ljson, written>>

progVars == <<prog>>

orderVars == <<tprog, held>>

vars == <<lwVars, cacheVars, dashVars, poolVars, reconVars, lockVars, progVars, orderVars>>

-----------------------------------------------------------------------------
(* Bounds of the model.                                                    *)

\* longest wordlist drawn for load_words on its own
MaxWordlistLen == 4

\* the tokens those wordlists are made of
Tokens == {1, 2}

\* the clock stops at MaxTime
MaxTime == 1

\* processes started one after the other (RunIDs 1..MaxRuns)
MaxRuns == 2

\* no block is registered once _OUTPUT_LEN would pass MaxOutputLen
MaxOutputLen == 12

\* thread_count: the worker threads of a pool
NumWorkers == 2

\* most units a scanner object counts in the lock model
MaxFlushes == 2

\* largest total count of the scanner whose progress status is followed
MaxUnits == 6

-----------------------------------------------------------------------------
(* Files and hashes.                                                       *)

NoFile == [exists |-> FALSE, data |-> <<>>]

File(d) == [exists |-> TRUE, data |-> d]

Max(a, b) == IF a >= b THEN a ELSE b

\* Python's lst[start:] for start >= 0: the elements from index start (0-based)
\* to the end, empty when start is past the end.
SliceFrom(lst, start) == SubSeq(lst, start + 1, Len(lst))

\* All sequences over S of length at most n.
SeqUpTo(S, n) == UNION {[1..k -> S] : k \in 0..n}

-----------------------------------------------------------------------------
(* Scanner.load_words                                                      *)

\* Mutant of load_words: the slice starts at the finished count itself.
load_words_from_finished(wordlist, finished) ==
    IF ~wordlist.exists
    THEN [raised |-> TRUE, words |-> <<>>]
    ELSE [raised |-> FALSE, words |-> SliceFrom(wordlist.data, Max(finished, 0))]

\* wl.readlines()[max(finished - 1, 0):], each line put on the queue in order;
\* an unreadable wordlist raises InvalidPathLoad.
load_words(wordlist, finished) ==
    IF ~wordlist.exists
    THEN [raised |-> TRUE, words |-> <<>>]
    ELSE [raised |-> FALSE, words |-> SliceFrom(wordlist.data, Max(finished - 1, 0))]

LwIdle ==
    /\ lw_wordlist = NoFile
    /\ lw_finished = 0
    /\ lw_out = [state |-> "unset", words |-> <<>>]

LwInit ==
    /\ lw_wordlist \in {NoFile} \cup {File(d) : d \in SeqUpTo(Tokens, MaxWordlistLen)}
    /\ lw_finished \in 0..Len(lw_wordlist.data)
    /\ lw_out = [state |-> "unset", words |-> <<>>]

\* The constructor's call  self.words_queue = self.load_words()
LoadWords ==
    /\ lw_out.state = "unset"
    /\ LET r == load_words(lw_wordlist, lw_finished)
       IN lw_out' = [state |-> IF r.raised THEN "raise" ELSE "queue", words |-> r.words]
    /\ UNCHANGED <<lw_wordlist, lw_finished>>
    /\ UNCHANGED <<orderVars, progVars, lockVars, cacheVars, dashVars, poolVars, reconVars>>

LwNext == LoadWords


-----------------------------------------------------------------------------
(* The cache of ScanManager: CacheRecord, CacheDocument, load, persist,     *)
(* clear.                                                                  *)

Kinds == {"ContentScanner", "DNSScanner"}

\* NmapScanner's "supports cache" and "persists results" flags
NmapScannerFlags == [supports_cache |-> TRUE, write_results |-> TRUE]

\* the class attribute _SUPPORTS_CACHE of each scan kind
SUPPORTS_CACHE(kind) ==
    IF kind = "NmapScanner" THEN NmapScannerFlags.supports_cache
    ELSE kind \in {"ContentScanner", "DNSScanner"}

\* the class attribute _WRITE_RESULTS: ContentScanner sets it, DNSScanner
\* inherits ScanManager's False
WRITE_RESULTS(kind) ==
    IF kind = "NmapScanner" THEN NmapScannerFlags.write_results
    ELSE kind = "ContentScanner"

\* CacheDefaultParams.CacheMaxAge, in clock ticks
CacheMaxAge == 1

TargetUrl == "http://target"

\* the "" a fresh record carries as results_filehash: no file hashes to it
EmptyHash == [tag |-> "none", of |-> <<>>]

\* the content hash of a file; a missing file hashes to a fixed sentinel
get_filehash(f) ==
    IF f.exists THEN [tag |-> "digest", of |-> f.data]
    ELSE [tag |-> "sentinel", of |-> <<>>]

\* the scan kinds a CacheDocument may hold a record of
RecordKinds == Kinds \cup {"NmapScanner"}

NoRecords == [k \in RecordKinds |-> <<>>]

\* The CacheDocument on disk: state "ok" is a parsable document, "missing" no
\* file, "corrupt" a file json.load or the ["scanners"] lookup fails on.
\* scanners[k] is <<>> (no record of kind k) or <<record>>.
MissingDoc == [state |-> "missing", target_url |-> "", scanners |-> NoRecords]

CorruptDoc == [state |-> "corrupt", target_url |-> "", scanners |-> NoRecords]

_init_cache_file_dict(target_url) ==
    [state |-> "ok", target_url |-> target_url, scanners |-> NoRecords]

_init_cache_scanner_dict(wordlist, runId, t) ==
    [wordlist_filehash |-> get_filehash(wordlist),
     results_filehash |-> EmptyHash,
     finished |-> 0,
     run_id |-> runId,
     timestamp |-> t]

\* the four checks of line 128-131, each on its own
ResultsHashOK(rec, results) == rec.results_filehash = get_filehash(results)

WordlistHashOK(rec, wordlist) == rec.wordlist_filehash = get_filehash(wordlist)

AgeOK(rec, t) == t - rec.timestamp < CacheMaxAge

RunIdOK(rec, runId) == rec.run_id # runId

FreshLoad(doc, wordlist, runId, t) ==
    [raised |-> FALSE,
     cache_dict |-> _init_cache_scanner_dict(wordlist, runId, t),
     use_prev_cache |-> FALSE,
     doc |-> doc]

\* Mutant of _load_cache_if_exists: the run_id comparison is left out.
_load_cache_if_exists_any_run(kind, doc, results, wordlist, runId, t) ==
    IF ~(SUPPORTS_CACHE(kind) /\ WRITE_RESULTS(kind))
    THEN FreshLoad(doc, wordlist, runId, t)
    ELSE IF doc.state = "missing"
    THEN FreshLoad(_init_cache_file_dict(TargetUrl), wordlist, runId, t)
    ELSE IF doc.state = "corrupt"
    THEN FreshLoad(doc, wordlist, runId, t)
    ELSE IF doc.scanners[kind] = <<>>
    THEN FreshLoad(doc, wordlist, runId, t)
    ELSE LET scan_cache == doc.scanners[kind][1]
         IN IF /\ scan_cache.results_filehash = get_filehash(results)
               /\ scan_cache.wordlist_filehash = get_filehash(wordlist)
               /\ t - scan_cache.timestamp < CacheMaxAge
            THEN [raised |-> FALSE,
                  cache_dict |-> [scan_cache EXCEPT !.run_id = runId],
                  use_prev_cache |-> TRUE,
                  doc |-> doc]
            ELSE FreshLoad(doc, wordlist, runId, t)

\* Mutant of _load_cache_if_exists: no try/except around the read, so an
\* unparsable document raises out of the constructor.
_load_cache_if_exists_no_try(kind, doc, results, wordlist, runId, t) ==
    IF ~(SUPPORTS_CACHE(kind) /\ WRITE_RESULTS(kind))
    THEN FreshLoad(doc, wordlist, runId, t)
    ELSE IF doc.state = "missing"
    THEN FreshLoad(_init_cache_file_dict(TargetUrl), wordlist, runId, t)
    ELSE IF doc.state = "corrupt"
    THEN [FreshLoad(doc, wordlist, runId, t) EXCEPT !.raised = TRUE]
    ELSE IF doc.scanners[kind] = <<>>
    THEN FreshLoad(doc, wordlist, runId, t)
    ELSE LET scan_cache == doc.scanners[kind][1]
         IN IF /\ scan_cache.results_filehash = get_filehash(results)
               /\ scan_cache.wordlist_filehash = get_filehash(wordlist)
               /\ t - scan_cache.timestamp < CacheMaxAge
               /\ scan_cache.run_id # runId
            THEN [raised |-> FALSE,
                  cache_dict |-> [scan_cache EXCEPT !.run_id = runId],
                  use_prev_cache |-> TRUE,
                  doc |-> doc]
            ELSE FreshLoad(doc, wordlist, runId, t)

\* ScanManager._load_cache_if_exists, all under _CACHE_MUTEX: what it returns
\* (cache_dict), the flag it sets (use_prev_cache), the document it leaves and
\* whether it raised.  Every exception of the read is swallowed (line 140) and
\* a missing document is created empty (line 136-139).
_load_cache_if_exists(kind, doc, results, wordlist, runId, t) ==
    IF ~(SUPPORTS_CACHE(kind) /\ WRITE_RESULTS(kind))
    THEN FreshLoad(doc, wordlist, runId, t)
    ELSE IF doc.state = "missing"
    THEN FreshLoad(_init_cache_file_dict(TargetUrl), wordlist, runId, t)
    ELSE IF doc.state = "corrupt"
    THEN FreshLoad(doc, wordlist, runId, t)
    ELSE IF doc.scanners[kind] = <<>>
    THEN FreshLoad(doc, wordlist, runId, t)
    ELSE LET scan_cache == doc.scanners[kind][1]
         IN IF /\ scan_cache.results_filehash = get_filehash(results)
               /\ scan_cache.wordlist_filehash = get_filehash(wordlist)
               /\ t - scan_cache.timestamp < CacheMaxAge
               /\ scan_cache.run_id # runId
            THEN [raised |-> FALSE,
                  cache_dict |-> [scan_cache EXCEPT !.run_id = runId],
                  use_prev_cache |-> TRUE,
                  doc |-> doc]
            ELSE FreshLoad(doc, wordlist, runId, t)

\* Mutant of _update_cache_results: the finished count is added to the one
\* already stored instead of replacing it.
_update_cache_results_accumulate(kind, cache_dict, doc, results) ==
    IF ~(SUPPORTS_CACHE(kind) /\ WRITE_RESULTS(kind))
    THEN [raised |-> FALSE, cache_dict |-> cache_dict, doc |-> doc]
    ELSE LET cd == [cache_dict EXCEPT !.results_filehash = get_filehash(results)]
             old == IF doc.scanners[kind] = <<>> THEN 0
                    ELSE doc.scanners[kind][1].finished
         IN IF doc.state # "ok"
            THEN [raised |-> TRUE, cache_dict |-> cd, doc |-> doc]
            ELSE [raised |-> FALSE,
                  cache_dict |-> cd,
                  doc |-> [doc EXCEPT !.scanners[kind] =
                              <<[cd EXCEPT !.finished = old + cd.finished]>>]]

\* ScanManager._update_cache_results (persist), under _CACHE_MUTEX: the results
\* hash is recomputed into the object's record, the document is read back
\* (open and json.load are not guarded: a missing or unparsable document
\* raises), the kind's record is replaced by the object's and the document is
\* written.
_update_cache_results(kind, cache_dict, doc, results) ==
    IF ~(SUPPORTS_CACHE(kind) /\ WRITE_RESULTS(kind))
    THEN [raised |-> FALSE, cache_dict |-> cache_dict, doc |-> doc]
    ELSE LET cd == [cache_dict EXCEPT !.results_filehash = get_filehash(results)]
         IN IF doc.state # "ok"
            THEN [raised |-> TRUE, cache_dict |-> cd, doc |-> doc]
            ELSE [raised |-> FALSE,
                  cache_dict |-> cd,
                  doc |-> [doc EXCEPT !.scanners[kind] = <<cd>>]]

\* ScanManager._save_results with mode "w" (ContentScanner's call): the results
\* artifact is rewritten with the given text, then the cache is persisted.
_save_results(kind, cache_dict, doc, results, text) ==
    IF ~WRITE_RESULTS(kind)
    THEN [raised |-> FALSE, cache_dict |-> cache_dict, doc |-> doc, results |-> results]
    ELSE LET u == _update_cache_results(kind, cache_dict, doc, File(text))
         IN [raised |-> u.raised, cache_dict |-> u.cache_dict, doc |-> u.doc,
             results |-> File(text)]

\* ScanManager._clear_cache_file: the document is removed when it exists.
_clear_cache_file(kind, doc) ==
    IF SUPPORTS_CACHE(kind) /\ doc.state # "missing" THEN MissingDoc ELSE doc

-----------------------------------------------------------------------------
(* The cache as a state machine: scanner objects are built (load), complete *)
(* units, record and flush results (persist) and clear the document, in a  *)
(* process that may be followed by a new one; the clock advances and the   *)
(* files may be changed from outside.                                      *)

Insts == {"a", "b"}

NoInst ==
    [alive |-> FALSE, kind |-> "DNSScanner",
     cache_dict |-> _init_cache_scanner_dict(NoFile, 0, 0),
     use_prev_cache |-> FALSE, total_count |-> 0, finished_count |-> 0,
     success_count |-> 0, ret_results |-> <<>>]

\* the wordlist as shipped and as edited between two runs
Wordlist0 == File(<<1>>)

Wordlist1 == File(<<1, 2>>)

\* a results artifact edited by hand
EditedResults == File(<<0>>)

LastNone ==
    [op |-> "none", who |-> "a", kind |-> "DNSScanner", raised |-> FALSE,
     hasRecord |-> FALSE, okResults |-> FALSE, okWordlist |-> FALSE,
     okAge |-> FALSE, okRunId |-> FALSE, stored |-> 0, again |-> FALSE,
     twice |-> FALSE, fin |-> 0, res |-> NoFile]

CacheIdle ==
    /\ RUN_ID = 1
    /\ now = 0
    /\ wordlistFile = Wordlist0
    /\ resultsFile = [k \in RecordKinds |-> NoFile]
    /\ cacheFile = MissingDoc
    /\ inst = [i \in Insts |-> NoInst]
    /\ trustedInRun = {}
    /\ last = LastNone

\* ScanManager.__init__ (line 48-51) and Scanner.__init__ (line 247-252) for a
\* scanner of kind k: the cache is loaded, the old results artifact is removed
\* when the cache was not trusted, the queue is loaded and counted.
Construct(i, k) ==
    /\ ~inst[i].alive
    /\ (i = "b") => inst["a"].alive      \* objects are named in the order built
    /\ LET r == _load_cache_if_exists(k, cacheFile, resultsFile[k], wordlistFile,
                                      RUN_ID, now)
           has == cacheFile.state = "ok" /\ cacheFile.scanners[k] # <<>>
           rec == IF has THEN cacheFile.scanners[k][1]
                  ELSE _init_cache_scanner_dict(NoFile, 0, 0)
       IN /\ cacheFile' = r.doc
          /\ inst' = IF r.raised THEN inst
                     ELSE [inst EXCEPT ![i] =
                              [alive |-> TRUE, kind |-> k,
                               cache_dict |-> r.cache_dict,
                               use_prev_cache |-> r.use_prev_cache,
                               total_count |->
                                   Len(load_words(wordlistFile,
                                                  r.cache_dict.finished).words),
                               finished_count |-> 0, success_count |-> 0,
                               ret_results |-> <<>>]]
          /\ resultsFile' = IF ~r.raised /\ ~r.use_prev_cache /\ WRITE_RESULTS(k)
                            THEN [resultsFile EXCEPT ![k] = NoFile]
                            ELSE resultsFile
          /\ trustedInRun' = IF r.use_prev_cache THEN trustedInRun \cup {k}
                             ELSE trustedInRun
          /\ last' = [LastNone EXCEPT
                        !.op = "load", !.who = i, !.kind = k, !.raised = r.raised,
                        !.hasRecord = has,
                        !.okResults = has /\ ResultsHashOK(rec, resultsFile[k]),
                        !.okWordlist = has /\ WordlistHashOK(rec, wordlistFile),
                        !.okAge = has /\ AgeOK(rec, now),
                        !.okRunId = has /\ RunIdOK(rec, RUN_ID),
                        !.stored = rec.finished,
                        !.again = k \in trustedInRun]
    /\ UNCHANGED <<orderVars, progVars, lockVars, lwVars, dashVars, poolVars, reconVars, RUN_ID, now, wordlistFile>>

\* Scanner._update_count and _update_progress_status line 210-212: one more
\* unit is finished and the object's record takes the new count.
UpdateCount(i) ==
    /\ inst[i].alive
    /\ inst[i].finished_count < inst[i].total_count
    /\ inst' = [inst EXCEPT ![i].finished_count = @ + 1,
                            ![i].cache_dict.finished = inst[i].finished_count + 1]
    /\ last' = LastNone
    /\ UNCHANGED <<orderVars, progVars, lockVars, lwVars, dashVars, poolVars, reconVars, RUN_ID, now, wordlistFile, resultsFile, cacheFile,
                   trustedInRun>>

\* A results flush of ContentScanner.single_bruter's finally (found_any) or
\* of _start_scanner's end: with found, the unit in progress had a result
\* appended to ret_results first (content_scanner.py line 82);
\* ContentScanner._save_results writes the whole of ret_results and persists
\* the cache.
SaveResults(i, found) ==
    /\ inst[i].alive
    /\ found => /\ inst[i].kind = "ContentScanner"
                /\ inst[i].finished_count < inst[i].total_count
                /\ Len(inst[i].ret_results) <= inst[i].finished_count
    /\ LET k == inst[i].kind
           rr == IF found THEN Append(inst[i].ret_results, Len(inst[i].ret_results) + 1)
                 ELSE inst[i].ret_results
           r == _save_results(k, inst[i].cache_dict, cacheFile, resultsFile[k], rr)
       IN /\ inst' = [inst EXCEPT ![i].cache_dict = r.cache_dict,
                                  ![i].ret_results = rr]
          /\ cacheFile' = r.doc
          /\ resultsFile' = [resultsFile EXCEPT ![k] = r.results]
          /\ last' = [LastNone EXCEPT
                        !.op = "persist", !.who = i, !.kind = k,
                        !.raised = r.raised,
                        !.fin = r.cache_dict.finished, !.res = r.results,
                        !.twice = /\ last.op = "persist"
                                  /\ last.who = i
                                  /\ ~last.raised
                                  /\ SUPPORTS_CACHE(k) /\ WRITE_RESULTS(k)
                                  /\ last.fin = r.cache_dict.finished
                                  /\ last.res = r.results]
    /\ UNCHANGED <<orderVars, progVars, lockVars, lwVars, dashVars, poolVars, reconVars, RUN_ID, now, wordlistFile, trustedInRun>>

\* clear: _clear_cache_file called on a scanner object.
ClearCache(i) ==
    /\ inst[i].alive
    /\ cacheFile' = _clear_cache_file(inst[i].kind, cacheFile)
    /\ last' = [LastNone EXCEPT !.op = "clear", !.who = i, !.kind = inst[i].kind]
    /\ UNCHANGED <<orderVars, progVars, lockVars, lwVars, dashVars, poolVars, reconVars, RUN_ID, now, wordlistFile, resultsFile, inst, trustedInRun>>

\* time passes
Tick ==
    /\ now < MaxTime
    /\ now' = now + 1
    /\ last' = LastNone
    /\ UNCHANGED <<orderVars, progVars, lockVars, lwVars, dashVars, poolVars, reconVars, RUN_ID, wordlistFile, resultsFile, cacheFile, inst,
                   trustedInRun>>

\* the process ends (finished, interrupted or killed) and the next one
\* starts: a new RunID (ScanManager.__new__), no scanner objects
NewRun ==
    /\ RUN_ID < MaxRuns
    /\ RUN_ID' = RUN_ID + 1
    /\ inst' = [i \in Insts |-> NoInst]
    /\ trustedInRun' = {}
    /\ last' = LastNone
    /\ UNCHANGED <<orderVars, progVars, lockVars, lwVars, dashVars, poolVars, reconVars, now, wordlistFile, resultsFile, cacheFile>>

NoneAlive == \A i \in Insts : ~inst[i].alive

\* the wordlist is edited between two scans
EditWordlist ==
    /\ NoneAlive
    /\ wordlistFile = Wordlist0
    /\ wordlistFile' = Wordlist1
    /\ last' = LastNone
    /\ UNCHANGED <<orderVars, progVars, lockVars, lwVars, dashVars, poolVars, reconVars, RUN_ID, now, resultsFile, cacheFile, inst, trustedInRun>>

\* the results artifact of a scan kind is edited between two scans
EditResults(k) ==
    /\ NoneAlive
    /\ WRITE_RESULTS(k)
    /\ resultsFile[k].exists
    /\ resultsFile[k] # EditedResults
    /\ resultsFile' = [resultsFile EXCEPT ![k] = EditedResults]
    /\ last' = LastNone
    /\ UNCHANGED <<orderVars, progVars, lockVars, lwVars, dashVars, poolVars, reconVars, RUN_ID, now, wordlistFile, cacheFile, inst, trustedInRun>>

\* the document is left unparsable (truncated by a kill while it was written)
CorruptCacheFile ==
    /\ cacheFile.state = "ok"
    /\ cacheFile' = CorruptDoc
    /\ last' = LastNone
    /\ UNCHANGED <<orderVars, progVars, lockVars, lwVars, dashVars, poolVars, reconVars, RUN_ID, now, wordlistFile, resultsFile, inst, trustedInRun>>

CacheNext ==
    \/ \E i \in Insts, k \in Kinds : Construct(i, k)
    \/ \E i \in Insts : UpdateCount(i)
    \/ \E i \in Insts, found \in BOOLEAN : SaveResults(i, found)
    \/ \E i \in Insts : ClearCache(i)
    \/ Tick
    \/ NewRun
    \/ EditWordlist
    \/ \E k \in Kinds : EditResults(k)
    \/ CorruptCacheFile

-----------------------------------------------------------------------------
(* OutputManager: the blocks, the tracked line count, the redraw.          *)

\* a dict or deque block is [source, content]; a status dict's content is the
\* sequence of its <<key, value>> items, a deque's the sequence of its lines
StatusSources == {"WebRecon", "ContentScanner"}

LinesSources == {"error_log"}

StatusKeys == {"State", "Left"}

StatusVals == {0, 1}

\* the lines a source logs; 0 is the '' a new deque is filled with
LineVals == {1}

\* OutputManager._DEF_MAXLEN
DEF_MAXLEN == 3

\* the status_keys dicts a scanner's _define_status_output gives
StatusKeyDicts == {<<<<"State", 0>>>>, <<<<"State", 0>>, <<"Left", 0>>>>}

HasSource(blocks, source) == \E j \in 1..Len(blocks) : blocks[j].source = source

IndexOf(blocks, source) == CHOOSE j \in 1..Len(blocks) : blocks[j].source = source

\* dict.pop(source): the block leaves, the others keep their order
PopSource(blocks, source) ==
    LET j == IndexOf(blocks, source)
    IN SubSeq(blocks, 1, j - 1) \o SubSeq(blocks, j + 1, Len(blocks))

\* d[key] = val on a dict kept as its items in insertion order
DictSet(items, key, val) ==
    IF \E j \in 1..Len(items) : items[j][1] = key
    THEN [j \in 1..Len(items) |->
             IF items[j][1] = key THEN <<key, val>> ELSE items[j]]
    ELSE Append(items, <<key, val>>)

\* deque(maxlen=_DEF_MAXLEN).append(line): the oldest line leaves a full deque
DequeAppend(lines, line) ==
    IF Len(lines) >= DEF_MAXLEN THEN Append(Tail(lines), line)
    ELSE Append(lines, line)

RECURSIVE SumSizes(_)
\* the lines _flush writes for a sequence of blocks: delimiter, source name and
\* the content of each
SumSizes(blocks) ==
    IF blocks = <<>> THEN 0
    ELSE 2 + Len(Head(blocks).content) + SumSizes(Tail(blocks))

\* OutputManager._flush: every status block, then every lines block
_flush(cont) == SumSizes(cont.Status) + SumSizes(cont.Lines)

RECURSIVE BlockLines(_)
\* the lines written for a sequence of blocks, in order: for each block the
\* delimiter, the source name and one line per item of its content
BlockLines(blocks) ==
    IF blocks = <<>> THEN <<>>
    ELSE LET b == Head(blocks)
         IN <<[source |-> b.source, part |-> "delimiter", item |-> 0],
              [source |-> b.source, part |-> "source", item |-> 0]>>
            \o [n \in 1..Len(b.content) |->
                   [source |-> b.source, part |-> "content", item |-> n]]
            \o BlockLines(Tail(blocks))

\* the writes of OutputManager._flush in order: the loop over the status
\* blocks (line 74-78), then the loop over the lines blocks (line 79-83)
FlushLines(cont) == BlockLines(cont.Status) \o BlockLines(cont.Lines)

\* OutputManager._clear: _OUTPUT_LEN + 1 line removes
_clear(len) == len + 1

\* OutputManager.insert_output: [cont, len] after the call
insert_output(cont, len, source, output_type, status_keys) ==
    IF HasSource(cont[output_type], source)
    THEN [raised |-> FALSE, cont |-> cont, len |-> len]
    ELSE IF output_type = "Lines"
    THEN [raised |-> FALSE,
          cont |-> [cont EXCEPT !.Lines =
                       Append(@, [source |-> source,
                                  content |-> [j \in 1..DEF_MAXLEN |-> 0]])],
          len |-> len + DEF_MAXLEN + 2]
    ELSE IF status_keys = <<>>
    THEN [raised |-> TRUE, cont |-> cont, len |-> len]
    ELSE [raised |-> FALSE,
          cont |-> [cont EXCEPT !.Status =
                       Append(@, [source |-> source, content |-> status_keys])],
          len |-> len + Len(status_keys) + 2]

\* OutputManager.remove_output: [cont, len, term] after the call; the tracked
\* count loses the length of the block's content (line 53, 56)
remove_output(cont, len, t, source, output_type) ==
    IF ~HasSource(cont[output_type], source)
    THEN [cont |-> cont, len |-> len, term |-> t]
    ELSE LET output_len == Len(cont[output_type][IndexOf(cont[output_type], source)].content)
             popped == [cont EXCEPT ![output_type] = PopSource(@, source)]
         IN [cont |-> popped,
             len |-> len - output_len,
             term |-> [erased |-> _clear(len), written |-> _flush(popped)]]

DashIdle ==
    /\ OUTPUT_CONT = [Status |-> <<>>, Lines |-> <<>>]
    /\ OUTPUT_LEN = 0
    /\ term = [erased |-> 0, written |-> 0]
    /\ drawn = <<>>
    /\ registered = <<>>
    /\ dpc = [t \in 1..NumWorkers |-> "idle"]

InsertOutput(source, output_type, status_keys) ==
    /\ LET r == insert_output(OUTPUT_CONT, OUTPUT_LEN, source, output_type, status_keys)
       IN /\ r.len <= MaxOutputLen
          /\ OUTPUT_CONT' = r.cont
          /\ OUTPUT_LEN' = r.len
          /\ registered' = IF r.cont # OUTPUT_CONT
                           THEN Append(registered, [type |-> output_type, source |-> source])
                           ELSE registered
    /\ UNCHANGED <<orderVars, progVars, lockVars, lwVars, cacheVars, poolVars, reconVars, term, drawn, dpc>>

RemoveOutput(source, output_type) ==
    /\ LET r == remove_output(OUTPUT_CONT, OUTPUT_LEN, term, source, output_type)
       IN /\ OUTPUT_CONT' = r.cont
          /\ OUTPUT_LEN' = r.len
          /\ term' = r.term
          /\ drawn' = IF r.cont # OUTPUT_CONT THEN FlushLines(r.cont) ELSE drawn
          /\ registered' = SelectSeq(registered,
                                     LAMBDA e : e # [type |-> output_type, source |-> source])
    /\ UNCHANGED <<orderVars, progVars, lockVars, lwVars, cacheVars, poolVars, reconVars, dpc>>

\* OutputManager.update_status on a registered source (an unregistered one
\* raises KeyError and changes nothing); the scanners set the keys their
\* block was registered with
UpdateStatus(source, output_key, output_val) ==
    /\ HasSource(OUTPUT_CONT.Status, source)
    /\ LET j == IndexOf(OUTPUT_CONT.Status, source)
           blk == OUTPUT_CONT.Status[j]
       IN /\ \E n \in 1..Len(blk.content) : blk.content[n][1] = output_key
          /\ OUTPUT_CONT' = [OUTPUT_CONT EXCEPT !.Status[j].content =
                                DictSet(@, output_key, output_val)]
    /\ term' = [erased |-> _clear(OUTPUT_LEN), written |-> _flush(OUTPUT_CONT')]
    /\ drawn' = FlushLines(OUTPUT_CONT')
    /\ UNCHANGED <<orderVars, progVars, lockVars, lwVars, cacheVars, poolVars, reconVars, OUTPUT_LEN, registered, dpc>>

\* OutputManager.update_lines on a registered source
UpdateLines(source, line) ==
    /\ HasSource(OUTPUT_CONT.Lines, source)
    /\ LET j == IndexOf(OUTPUT_CONT.Lines, source)
       IN OUTPUT_CONT' = [OUTPUT_CONT EXCEPT !.Lines[j].content = DequeAppend(@, line)]
    /\ term' = [erased |-> _clear(OUTPUT_LEN), written |-> _flush(OUTPUT_CONT')]
    /\ drawn' = FlushLines(OUTPUT_CONT')
    /\ UNCHANGED <<orderVars, progVars, lockVars, lwVars, cacheVars, poolVars, reconVars, OUTPUT_LEN, registered, dpc>>

DashNext ==
    \/ \E src \in StatusSources, keys \in StatusKeyDicts :
          InsertOutput(src, "Status", keys)
    \/ \E src \in LinesSources : InsertOutput(src, "Lines", <<>>)
    \/ \E src \in StatusSources : RemoveOutput(src, "Status")
    \/ \E src \in LinesSources : RemoveOutput(src, "Lines")
    \/ \E src \in StatusSources, k \in StatusKeys, v \in StatusVals :
          UpdateStatus(src, k, v)
    \/ \E src \in LinesSources, line \in LineVals : UpdateLines(src, line)

\* ---- update_status and update_lines called from several threads, with the
\* statements of a call apart: the mutation (line 62, 69), self._clear()
\* (line 63, 70) and self._flush() (line 64, 71)

\* the blocks a scanner registers when it is built: its status block, then
\* the log block
RaceBlocks ==
    LET s1 == insert_output([Status |-> <<>>, Lines |-> <<>>], 0, "ContentScanner",
                            "Status", <<<<"State", 0>>, <<"Left", 0>>>>)
    IN insert_output(s1.cont, s1.len, "error_log", "Lines", <<>>)

RaceInit ==
    /\ OUTPUT_CONT = RaceBlocks.cont
    /\ OUTPUT_LEN = RaceBlocks.len
    /\ term = [erased |-> 0, written |-> 0]
    /\ drawn = <<>>
    /\ registered = <<[type |-> "Status", source |-> "ContentScanner"],
                      [type |-> "Lines", source |-> "error_log"]>>
    /\ dpc = [t \in 1..NumWorkers |-> "idle"]

\* update_status line 62: the value is set
StatusMutate(t, source, output_key, output_val) ==
    /\ dpc[t] = "idle"
    /\ HasSource(OUTPUT_CONT.Status, source)
    /\ LET j == IndexOf(OUTPUT_CONT.Status, source)
           blk == OUTPUT_CONT.Status[j]
       IN /\ \E n \in 1..Len(blk.content) : blk.content[n][1] = output_key
          /\ OUTPUT_CONT' = [OUTPUT_CONT EXCEPT !.Status[j].content =
                                DictSet(@, output_key, output_val)]
    /\ dpc' = [dpc EXCEPT ![t] = "clear"]
    /\ UNCHANGED <<orderVars, progVars, lockVars, lwVars, cacheVars, poolVars, reconVars, OUTPUT_LEN, term,
                   drawn, registered>>

\* update_lines line 69: the line is appended
LinesMutate(t, source, line) ==
    /\ dpc[t] = "idle"
    /\ HasSource(OUTPUT_CONT.Lines, source)
    /\ LET j == IndexOf(OUTPUT_CONT.Lines, source)
       IN OUTPUT_CONT' = [OUTPUT_CONT EXCEPT !.Lines[j].content = DequeAppend(@, line)]
    /\ dpc' = [dpc EXCEPT ![t] = "clear"]
    /\ UNCHANGED <<orderVars, progVars, lockVars, lwVars, cacheVars, poolVars, reconVars, OUTPUT_LEN, term,
                   drawn, registered>>

\* self._clear(): the erase
UpdateClear(t) ==
    /\ dpc[t] = "clear"
    /\ term' = [term EXCEPT !.erased = _clear(OUTPUT_LEN)]
    /\ dpc' = [dpc EXCEPT ![t] = "flush"]
    /\ UNCHANGED <<orderVars, progVars, lockVars, lwVars, cacheVars, poolVars, reconVars, OUTPUT_CONT,
                   OUTPUT_LEN, drawn, registered>>

\* self._flush(): the rewrite
UpdateFlush(t) ==
    /\ dpc[t] = "flush"
    /\ term' = [term EXCEPT !.written = _flush(OUTPUT_CONT)]
    /\ drawn' = FlushLines(OUTPUT_CONT)
    /\ dpc' = [dpc EXCEPT ![t] = "idle"]
    /\ UNCHANGED <<orderVars, progVars, lockVars, lwVars, cacheVars, poolVars, reconVars, OUTPUT_CONT,
                   OUTPUT_LEN, registered>>

RaceNext ==
    \/ \E t \in 1..NumWorkers, src \in StatusSources, k \in StatusKeys, v \in StatusVals :
          StatusMutate(t, src, k, v)
    \/ \E t \in 1..NumWorkers, src \in LinesSources, line \in LineVals :
          LinesMutate(t, src, line)
    \/ \E t \in 1..NumWorkers : UpdateClear(t)
    \/ \E t \in 1..NumWorkers : UpdateFlush(t)

-----------------------------------------------------------------------------
(* ContentScanner: the worker pool of single_bruter over the shared queue. *)

Workers == 1..NumWorkers

\* self.extensions for the default extensions argument: "".split(',') is ['']
extensions == <<".">>

\* self.do_bypass: the bypass scan is disabled
do_bypass == FALSE

\* ScannerDefaultParams: the status codes recorded as results
SuccessStatusCodes == {"200"}

ForbiddenSCode == "403"

TooManyRedirectsSCode == "TooManyRedirects"

\* what a request ends in: a status code or an exception of requests
StatusCodes == {"200", "403", "404"}

TransientFaults == {"ConnectionError"}

\* attempt_list for a token: "/token", then "/token" + ext for each extension;
\* a URL is <<token, suffix>>
AttemptList(tok) ==
    <<<<tok, "">>>> \o [j \in 1..Len(extensions) |-> <<tok, extensions[j]>>]

\* the outcomes the target has for a URL
Outcomes(url) == IF url[2] = "" THEN target.base[url[1]] ELSE target.variant

\* self.ret_results[code].append(url) on the defaultdict(list), kept as its
\* items in insertion order
RetAppend(rr, code, url) ==
    IF \E j \in 1..Len(rr) : rr[j].code = code
    THEN [j \in 1..Len(rr) |->
             IF rr[j].code = code THEN [rr[j] EXCEPT !.urls = Append(@, url)]
             ELSE rr[j]]
    ELSE Append(rr, [code |-> code, urls |-> <<url>>])

PoolIdle ==
    /\ target = [base |-> <<>>, variant |-> {}]
    /\ SHOULD_ABORT = FALSE
    /\ process = "none"
    /\ main = "init"
    /\ words_queue = <<>>
    /\ pc = [w \in Workers |-> "unborn"]
    /\ attempt = [w \in Workers |-> 0]
    /\ brute = [w \in Workers |-> 0]
    /\ found_any = [w \in Workers |-> FALSE]
    /\ save_iter = [w \in Workers |-> 0]
    /\ results_str = [w \in Workers |-> <<>>]
    /\ cache_json = <<>>
    /\ req_log = [w \in Workers |-> <<>>]

\* ---- the state of the orchestrator's variables, given self.recon_results
\* and the State reported

\* the classes _SCANNAME_TO_METHOD_MAP maps a scan name to
ScanClasses == {"ContentScanner", "NmapScanner"}

\* generate_url_base_path(word) for the words of the subdomain wordlist
Subdomain(word) == <<"http://1.target", "http://2.target">>[word]

Targets == {TargetUrl} \cup {Subdomain(word) : word \in Tokens}

\* self.recon_results = dict(): no target has an entry
NoReconResults ==
    [t \in Targets |->
        [present |-> FALSE,
         scans |-> [k \in ScanClasses |-> [set |-> FALSE, data |-> <<>>]]]]

HistNone == [raised |-> FALSE, fault |-> FALSE, unknown |-> FALSE]

ReconAt(rr, st) ==
    /\ cfg = [dns_recursion |-> FALSE, scans |-> <<"ContentScanner">>]
    /\ state = st
    /\ opc = "none"
    /\ domains = <<>>
    /\ self_domains = <<>>
    /\ cur = [target |-> TargetUrl, idx |-> 0]
    /\ total_count = 0
    /\ recon_results = rr
    /\ summaryFile = NoFile
    /\ scan_status = [k \in ScanClasses |-> "idle"]
    /\ thread_started = {}
    /\ scan_state = "Setup"
    /\ hist = HistNone

ReconIdle == ReconAt(NoReconResults, "Setup")

\* self.recon_results once _do_scan has entered the scan of the target
\* (WebRecon.py line 141 and 173)
ScanEntered ==
    [NoReconResults EXCEPT
        ![TargetUrl].present = TRUE,
        ![TargetUrl].scans["ContentScanner"].set = TRUE]

scanner == inst["a"]

\* ContentScanner(...).start_scanner() up to the start of the threads: the
\* constructor loads the cache, removes untrusted old results, loads and
\* counts the queue; _start_scanner starts thread_count workers.
Build ==
    /\ process = "none"
    /\ LET k == "ContentScanner"
           r == _load_cache_if_exists(k, cacheFile, resultsFile[k], wordlistFile,
                                      RUN_ID, now)
           lw == load_words(wordlistFile, r.cache_dict.finished)
       IN /\ ~lw.raised
          /\ cacheFile' = r.doc
          /\ resultsFile' = IF ~r.use_prev_cache /\ WRITE_RESULTS(k)
                            THEN [resultsFile EXCEPT ![k] = NoFile]
                            ELSE resultsFile
          /\ inst' = [inst EXCEPT !["a"] =
                         [alive |-> TRUE, kind |-> k, cache_dict |-> r.cache_dict,
                          use_prev_cache |-> r.use_prev_cache,
                          total_count |-> Len(lw.words),
                          finished_count |-> 0, success_count |-> 0,
                          ret_results |-> <<>>]]
          /\ words_queue' = lw.words
    /\ process' = "running"
    /\ main' = "join"
    /\ pc' = [w \in Workers |-> "loop"]
    /\ UNCHANGED <<orderVars, progVars, req_log, lockVars, reconVars, cache_json, lwVars, dashVars, RUN_ID, now, wordlistFile, trustedInRun, last,
                   target, SHOULD_ABORT, attempt, brute, found_any, save_iter,
                   results_str>>

\* while not self.words_queue.empty() ...
CheckEmpty(w) ==
    /\ process = "running"
    /\ pc[w] = "loop"
    /\ pc' = [pc EXCEPT ![w] = IF words_queue = <<>> THEN "done" ELSE "chk_abort"]
    /\ UNCHANGED <<orderVars, progVars, req_log, lockVars, reconVars, cache_json, lwVars, cacheVars, dashVars, target, SHOULD_ABORT, process, main,
                   words_queue, attempt, brute, found_any, save_iter, results_str>>

\* ... and not ScanManager._SHOULD_ABORT:
CheckAbort(w) ==
    /\ process = "running"
    /\ pc[w] = "chk_abort"
    /\ pc' = [pc EXCEPT ![w] = IF SHOULD_ABORT THEN "done" ELSE "get"]
    /\ UNCHANGED <<orderVars, progVars, req_log, lockVars, reconVars, cache_json, lwVars, cacheVars, dashVars, target, SHOULD_ABORT, process, main,
                   words_queue, attempt, brute, found_any, save_iter, results_str>>

\* attempt = self.words_queue.get(): blocks while the queue is empty
Dequeue(w) ==
    /\ process = "running"
    /\ pc[w] = "get"
    /\ words_queue # <<>>
    /\ attempt' = [attempt EXCEPT ![w] = Head(words_queue)]
    /\ words_queue' = Tail(words_queue)
    /\ found_any' = [found_any EXCEPT ![w] = FALSE]
    /\ brute' = [brute EXCEPT ![w] = 1]
    /\ pc' = [pc EXCEPT ![w] = "request"]
    /\ req_log' = [req_log EXCEPT ![w] = <<>>]
    /\ UNCHANGED <<orderVars, progVars, lockVars, reconVars, cache_json, lwVars, cacheVars, dashVars, target, SHOULD_ABORT, process, main,
                   save_iter, results_str>>

\* where a worker goes once the finally of a request is through: the next
\* entry of attempt_list, or _update_count after the last
AfterRequest(w) ==
    IF brute[w] < Len(AttemptList(attempt[w])) THEN "request" ELSE "count"

NextBrute(w) ==
    IF brute[w] < Len(AttemptList(attempt[w])) THEN brute[w] + 1 ELSE brute[w]

\* a request answered with a status code (line 64-85): a success code or 403
\* is appended to ret_results (filter_size is None); the finally saves when
\* found_any is set, else only sleeps
Respond(w, scode) ==
    /\ process = "running"
    /\ pc[w] = "request"
    /\ LET url == AttemptList(attempt[w])[brute[w]]
           rec == scode \in SuccessStatusCodes \/ scode = ForbiddenSCode
           fa == found_any[w] \/ rec
       IN /\ scode \in Outcomes(url) \cap StatusCodes
          /\ ~(scode = ForbiddenSCode /\ do_bypass)
          /\ inst' = IF rec
                     THEN [inst EXCEPT !["a"].ret_results = RetAppend(@, scode, url)]
                     ELSE inst
          /\ found_any' = [found_any EXCEPT ![w] = fa]
          /\ pc' = [pc EXCEPT ![w] = IF fa THEN "finally" ELSE AfterRequest(w)]
          /\ brute' = [brute EXCEPT ![w] = IF fa THEN @ ELSE NextBrute(w)]
    /\ req_log' = [req_log EXCEPT ![w] = Append(@, scode)]
    /\ UNCHANGED <<orderVars, progVars, lockVars, reconVars, cache_json, lwVars, dashVars, RUN_ID, now, wordlistFile, resultsFile, cacheFile,
                   trustedInRun, last, target, SHOULD_ABORT, process, main,
                   words_queue, attempt, save_iter, results_str>>

\* ConnectionError, ConnectTimeout, ReadTimeout, HTTPError (line 87-89):
\* continue, through the finally
TransientFault(w) ==
    /\ process = "running"
    /\ pc[w] = "request"
    /\ pc' = [pc EXCEPT ![w] = IF found_any[w] THEN "finally" ELSE AfterRequest(w)]
    /\ brute' = [brute EXCEPT ![w] = IF found_any[w] THEN @ ELSE NextBrute(w)]
    /\ \E f \in Outcomes(AttemptList(attempt[w])[brute[w]]) \cap TransientFaults :
          req_log' = [req_log EXCEPT ![w] = Append(@, f)]
    /\ UNCHANGED <<orderVars, progVars, lockVars, reconVars, cache_json, lwVars, cacheVars, dashVars, target, SHOULD_ABORT, process, main,
                   words_queue, attempt, found_any, save_iter, results_str>>

\* TooManyRedirects (line 90-94): recorded under the pseudo-status
RedirectFault(w) ==
    /\ process = "running"
    /\ pc[w] = "request"
    /\ LET url == AttemptList(attempt[w])[brute[w]]
       IN /\ TooManyRedirectsSCode \in Outcomes(url)
          /\ inst' = [inst EXCEPT !["a"].ret_results =
                         RetAppend(@, TooManyRedirectsSCode, url)]
    /\ found_any' = [found_any EXCEPT ![w] = TRUE]
    /\ pc' = [pc EXCEPT ![w] = "finally"]
    /\ req_log' = [req_log EXCEPT ![w] = Append(@, TooManyRedirectsSCode)]
    /\ UNCHANGED <<orderVars, progVars, lockVars, reconVars, cache_json, lwVars, dashVars, RUN_ID, now, wordlistFile, resultsFile, cacheFile,
                   trustedInRun, last, target, SHOULD_ABORT, process, main,
                   words_queue, attempt, brute, save_iter, results_str>>

\* any other exception (line 95-96): abort_scan sets the flag (line 229) ...
UnknownFault(w) ==
    /\ process = "running"
    /\ pc[w] = "request"
    /\ "Exception" \in Outcomes(AttemptList(attempt[w])[brute[w]])
    /\ SHOULD_ABORT' = TRUE
    /\ pc' = [pc EXCEPT ![w] = "abort"]
    /\ req_log' = [req_log EXCEPT ![w] = Append(@, "Exception")]
    /\ UNCHANGED <<orderVars, progVars, lockVars, reconVars, cache_json, lwVars, cacheVars, dashVars, target, process, main, words_queue,
                   attempt, brute, found_any, save_iter, results_str>>

\* ... logs, and kills the process (line 230-233)
Kill(w) ==
    /\ process = "running"
    /\ pc[w] = "abort"
    /\ process' = "killed"
    /\ UNCHANGED <<orderVars, progVars, req_log, lockVars, reconVars, cache_json, lwVars, cacheVars, dashVars, target, SHOULD_ABORT, main, words_queue,
                   pc, attempt, brute, found_any, save_iter, results_str>>

\* finally: if found_any: self._save_results() -- ContentScanner._save_results
\* starts to iterate self.ret_results.items(), outside any lock (line 42)
SaveIterStart(w) ==
    /\ process = "running"
    /\ pc[w] = "finally"
    /\ save_iter' = [save_iter EXCEPT ![w] = Len(scanner.ret_results)]
    /\ pc' = [pc EXCEPT ![w] = "save_iter"]
    /\ UNCHANGED <<orderVars, progVars, req_log, lockVars, reconVars, cache_json, lwVars, cacheVars, dashVars, target, SHOULD_ABORT, process, main,
                   words_queue, attempt, brute, found_any, results_str>>

\* the iteration ends: with a key added to the dict by another worker since it
\* began, the dict iterator raises RuntimeError (dictionary changed size
\* during iteration), which leaves the finally and ends the thread; else the
\* text is built
SaveIterEnd(w) ==
    /\ process = "running"
    /\ pc[w] = "save_iter"
    /\ IF Len(scanner.ret_results) # save_iter[w]
       THEN /\ pc' = [pc EXCEPT ![w] = "raised"]
            /\ UNCHANGED results_str
       ELSE /\ pc' = [pc EXCEPT ![w] = "save_write"]
            /\ results_str' = [results_str EXCEPT ![w] = scanner.ret_results]
    /\ UNCHANGED <<orderVars, progVars, req_log, lockVars, reconVars, cache_json, lwVars, cacheVars, dashVars, target, SHOULD_ABORT, process, main,
                   words_queue, attempt, brute, found_any, save_iter>>

\* super()._save_results(results_str, mode='w'): _CACHE_MUTEX is taken, the
\* artifact is written, _update_cache_results recomputes the results hash,
\* reads the document back (raising when it cannot) and opens it with mode "w":
\* the file on disk is now empty, the document to write is in memory
SaveWrite(w) ==
    /\ process = "running"
    /\ pc[w] = "save_write"
    /\ cache_json = <<>>
    /\ LET k == "ContentScanner"
           r == _save_results(k, scanner.cache_dict, cacheFile, resultsFile[k],
                              results_str[w])
       IN /\ inst' = [inst EXCEPT !["a"].cache_dict = r.cache_dict]
          /\ resultsFile' = [resultsFile EXCEPT ![k] = r.results]
          /\ cacheFile' = IF r.raised THEN cacheFile ELSE CorruptDoc
          /\ cache_json' = IF r.raised THEN <<>> ELSE <<r.doc>>
          /\ pc' = [pc EXCEPT ![w] = IF r.raised THEN "raised" ELSE "save_dump"]
    /\ results_str' = [results_str EXCEPT ![w] = <<>>]
    /\ UNCHANGED <<orderVars, progVars, req_log, lockVars, reconVars, lwVars, dashVars, RUN_ID, now, wordlistFile, trustedInRun,
                   last, target, SHOULD_ABORT, process, main, words_queue, attempt,
                   brute, found_any, save_iter>>

\* json.dump(cache_json, cf) and the close (base_scanner.py line 104-105): the
\* document is on disk, _CACHE_MUTEX is released; then _sleep_after_request
SaveDump(w) ==
    /\ process = "running"
    /\ pc[w] = "save_dump"
    /\ cacheFile' = cache_json[1]
    /\ cache_json' = <<>>
    /\ pc' = [pc EXCEPT ![w] = AfterRequest(w)]
    /\ brute' = [brute EXCEPT ![w] = NextBrute(w)]
    /\ UNCHANGED <<orderVars, progVars, req_log, lockVars, reconVars, lwVars, dashVars, RUN_ID, now, wordlistFile, resultsFile,
                   inst, trustedInRun, last, target, SHOULD_ABORT, process, main,
                   words_queue, attempt, found_any, save_iter, results_str>>

\* Mutant of UpdateCountOf: the count grows by one per request of the token.
UpdateCountOf_per_request(w) ==
    /\ process = "running"
    /\ pc[w] = "count"
    /\ cache_json = <<>>
    /\ inst' = [inst EXCEPT
                   !["a"].finished_count = @ + Len(AttemptList(attempt[w])),
                   !["a"].cache_dict.finished =
                       scanner.finished_count + Len(AttemptList(attempt[w])),
                   !["a"].success_count = IF found_any[w] THEN @ + 1 ELSE @]
    /\ pc' = [pc EXCEPT ![w] = "loop"]
    /\ attempt' = [attempt EXCEPT ![w] = 0]
    /\ brute' = [brute EXCEPT ![w] = 0]
    /\ found_any' = [found_any EXCEPT ![w] = FALSE]
    /\ save_iter' = [save_iter EXCEPT ![w] = 0]
    /\ req_log' = [req_log EXCEPT ![w] = <<>>]
    /\ UNCHANGED <<orderVars, progVars, lockVars, reconVars, cache_json, lwVars, dashVars, RUN_ID, now, wordlistFile, resultsFile, cacheFile,
                   trustedInRun, last, target, SHOULD_ABORT, process, main,
                   words_queue, results_str>>

\* attempt_list.clear(); self._update_count(attempt, found_any): under
\* _count_mutex the finished count grows, _update_progress_status writes it to
\* the object's cache record (line 212), a success grows the success count
UpdateCountOf(w) ==
    /\ process = "running"
    /\ pc[w] = "count"
    /\ cache_json = <<>>
    /\ inst' = [inst EXCEPT
                   !["a"].finished_count = @ + 1,
                   !["a"].cache_dict.finished = scanner.finished_count + 1,
                   !["a"].success_count = IF found_any[w] THEN @ + 1 ELSE @]
    /\ pc' = [pc EXCEPT ![w] = "loop"]
    /\ attempt' = [attempt EXCEPT ![w] = 0]
    /\ brute' = [brute EXCEPT ![w] = 0]
    /\ found_any' = [found_any EXCEPT ![w] = FALSE]
    /\ save_iter' = [save_iter EXCEPT ![w] = 0]
    /\ req_log' = [req_log EXCEPT ![w] = <<>>]
    /\ UNCHANGED <<orderVars, progVars, lockVars, reconVars, cache_json, lwVars, dashVars, RUN_ID, now, wordlistFile, resultsFile, cacheFile,
                   trustedInRun, last, target, SHOULD_ABORT, process, main,
                   words_queue, results_str>>

\* Mutant of JoinAndSave: the threads are not joined before the results are
\* saved and returned.
JoinAndSave_no_join ==
    /\ process = "running"
    /\ main = "join"
    /\ LET k == "ContentScanner"
           r == _save_results(k, scanner.cache_dict, cacheFile, resultsFile[k],
                              scanner.ret_results)
       IN /\ inst' = [inst EXCEPT !["a"].cache_dict = r.cache_dict]
          /\ cacheFile' = r.doc
          /\ resultsFile' = [resultsFile EXCEPT ![k] = r.results]
          /\ main' = IF r.raised THEN "failed" ELSE "complete"
          /\ SHOULD_ABORT' = (SHOULD_ABORT \/ r.raised)
          /\ process' = IF r.raised THEN "killed" ELSE "running"
    /\ UNCHANGED <<orderVars, progVars, req_log, lockVars, reconVars, cache_json, lwVars, dashVars, RUN_ID, now, wordlistFile, trustedInRun, last,
                   target, words_queue, pc, attempt, brute, found_any, save_iter,
                   results_str>>

\* _start_scanner line 113-117: every thread has ended (returned or raised),
\* the results are saved once more and returned; start_scanner reports
\* Complete, or on an exception sets the flag and kills the process
JoinAndSave ==
    /\ process = "running"
    /\ main = "join"
    /\ \A w \in Workers : pc[w] \in {"done", "raised"}
    /\ LET k == "ContentScanner"
           r == _save_results(k, scanner.cache_dict, cacheFile, resultsFile[k],
                              scanner.ret_results)
       IN /\ inst' = [inst EXCEPT !["a"].cache_dict = r.cache_dict]
          /\ cacheFile' = r.doc
          /\ resultsFile' = [resultsFile EXCEPT ![k] = r.results]
          /\ main' = IF r.raised THEN "failed" ELSE "complete"
          /\ SHOULD_ABORT' = (SHOULD_ABORT \/ r.raised)
          /\ process' = IF r.raised THEN "killed" ELSE "running"
    /\ UNCHANGED <<orderVars, progVars, req_log, lockVars, reconVars, cache_json, lwVars, dashVars, RUN_ID, now, wordlistFile, trustedInRun, last,
                   target, words_queue, pc, attempt, brute, found_any, save_iter,
                   results_str>>

\* WebRecon._do_scan line 176-178: start_scanner has returned the results;
\* when there are any they are merged into recon_results
DoScanMerge ==
    /\ process = "running"
    /\ main = "complete"
    /\ main' = "merged"
    /\ recon_results' =
           IF scanner.ret_results # <<>>
           THEN [recon_results EXCEPT
                    ![TargetUrl].scans["ContentScanner"].data = scanner.ret_results]
           ELSE recon_results
    /\ UNCHANGED <<orderVars, progVars, req_log, lockVars, lwVars, cacheVars, dashVars, target, SHOULD_ABORT, process,
                   words_queue, pc, attempt, brute, found_any, save_iter, results_str,
                   cache_json, cfg, state, opc, domains, self_domains, cur, total_count,
                   summaryFile, scan_status, thread_started, scan_state, hist>>

\* the steps of a scan whose requests all come back with a status code
ScanNext ==
    \/ Build
    \/ \E w \in Workers : CheckEmpty(w)
    \/ \E w \in Workers : CheckAbort(w)
    \/ \E w \in Workers : Dequeue(w)
    \/ \E w \in Workers, scode \in StatusCodes : Respond(w, scode)
    \/ \E w \in Workers : SaveIterStart(w)
    \/ \E w \in Workers : SaveIterEnd(w)
    \/ \E w \in Workers : SaveWrite(w)
    \/ \E w \in Workers : SaveDump(w)
    \/ \E w \in Workers : UpdateCountOf(w)
    \/ JoinAndSave
    \/ DoScanMerge

\* the steps of a scan whose requests may raise as well
PoolNext ==
    \/ ScanNext
    \/ \E w \in Workers : TransientFault(w)
    \/ \E w \in Workers : RedirectFault(w)
    \/ \E w \in Workers : UnknownFault(w)
    \/ \E w \in Workers : Kill(w)

\* ---- the end-to-end scenario: a 10-line wordlist against a target that
\* answers 404 except for line 5 (200) and line 7 (403); either a first run or
\* the run after one interrupted with a cached finished count of 4
ScanWordlist == File([i \in 1..10 |-> i])

ScanTarget ==
    [base |-> [t \in 1..10 |-> IF t = 5 THEN {"200"}
                               ELSE IF t = 7 THEN {"403"} ELSE {"404"}],
     variant |-> {"404"}]

\* the artifact the interrupted run left: the hit of line 5, flushed when 4
\* units were finished
InterruptedResults == File(<<[code |-> "200", urls |-> <<<<5, "">>>>]>>)

InterruptedDoc ==
    [_init_cache_file_dict(TargetUrl) EXCEPT !.scanners["ContentScanner"] =
        <<[wordlist_filehash |-> get_filehash(ScanWordlist),
           results_filehash |-> get_filehash(InterruptedResults),
           finished |-> 4,
           run_id |-> 1,
           timestamp |-> 0]>>]

ScanInit ==
    /\ PoolIdle!2 /\ PoolIdle!3 /\ PoolIdle!4 /\ PoolIdle!5 /\ PoolIdle!6
    /\ PoolIdle!7 /\ PoolIdle!8 /\ PoolIdle!9 /\ PoolIdle!10 /\ PoolIdle!11
    /\ PoolIdle!12 /\ PoolIdle!13
    /\ ReconAt(ScanEntered, "Running")
    /\ target = ScanTarget
    /\ RUN_ID = 2
    /\ now = 0
    /\ wordlistFile = ScanWordlist
    /\ \/ /\ cacheFile = MissingDoc
          /\ resultsFile = [k \in RecordKinds |-> NoFile]
       \/ /\ cacheFile = InterruptedDoc
          /\ resultsFile = [k \in RecordKinds |-> IF k = "ContentScanner"
                                            THEN InterruptedResults ELSE NoFile]
    /\ inst = [i \in Insts |-> NoInst]
    /\ trustedInRun = {}
    /\ last = LastNone

\* ---- a pool over a short wordlist against a target whose every request may
\* end in any status code or exception
PoolWordlist == File(<<1, 2>>)

AnyOutcome == StatusCodes \cup TransientFaults \cup {TooManyRedirectsSCode, "Exception"}

PoolTarget ==
    [base |-> [t \in 1..Len(PoolWordlist.data) |-> AnyOutcome],
     variant |-> {"404"} \cup TransientFaults]

PoolInit ==
    /\ PoolIdle!2 /\ PoolIdle!3 /\ PoolIdle!4 /\ PoolIdle!5 /\ PoolIdle!6
    /\ PoolIdle!7 /\ PoolIdle!8 /\ PoolIdle!9 /\ PoolIdle!10 /\ PoolIdle!11
    /\ PoolIdle!12 /\ PoolIdle!13
    /\ ReconAt(ScanEntered, "Running")
    /\ target = PoolTarget
    /\ CacheIdle!1 /\ CacheIdle!2 /\ CacheIdle!4 /\ CacheIdle!5 /\ CacheIdle!6
    /\ CacheIdle!7 /\ CacheIdle!8
    /\ wordlistFile = PoolWordlist

-----------------------------------------------------------------------------
(* WebRecon, the orchestrator: _setup_targets with the DNSScanner pool,     *)
(* start_recon's loop over the targets, _start_scans_for_target, _do_scan.  *)
(* The DNSScanner object is inst["a"]; its workers share the loop head of   *)
(* single_bruter (CheckEmpty, CheckAbort, Dequeue) with ContentScanner.     *)

\* DNSScanner.load_words: the whole wordlist, the open is not guarded
DNSScanner_load_words(wordlist) ==
    IF ~wordlist.exists THEN [raised |-> TRUE, words |-> <<>>]
    ELSE [raised |-> FALSE, words |-> wordlist.data]

\* self._cache_dict of the WebRecon object (no wordlist)
ReconCacheDict == _init_cache_scanner_dict(NoFile, RUN_ID, now)

\* _setup_targets (line 164-170), and line 132-133 when no discovery is asked
\* for: the local queue gets the primary target; with dns_recursion a
\* DNSScanner is built on self.domains and its threads are started; an
\* exception of the constructor reaches the except of start_recon (line 160)
SetupTargets ==
    /\ process = "running"
    /\ opc = "setup"
    /\ domains' = <<TargetUrl>>
    /\ IF ~cfg.dns_recursion
       THEN /\ state' = "Running"
            /\ opc' = "pop"
            /\ UNCHANGED <<inst, words_queue, pc, main, scan_state>>
       ELSE LET k == "DNSScanner"
                r == _load_cache_if_exists(k, cacheFile, resultsFile[k], wordlistFile,
                                           RUN_ID, now)
                lw == DNSScanner_load_words(wordlistFile)
            IN IF lw.raised
               THEN /\ state' = "Fail"
                    /\ opc' = "end"
                    /\ UNCHANGED <<inst, words_queue, pc, main, scan_state>>
               ELSE /\ inst' = [inst EXCEPT !["a"] =
                                   [alive |-> TRUE, kind |-> k,
                                    cache_dict |-> r.cache_dict,
                                    use_prev_cache |-> r.use_prev_cache,
                                    total_count |-> Len(lw.words),
                                    finished_count |-> 0, success_count |-> 0,
                                    ret_results |-> <<>>]]
                    /\ words_queue' = lw.words
                    /\ pc' = [w \in Workers |-> "loop"]
                    /\ main' = "join"
                    /\ scan_state' = "Running"
                    /\ opc' = "dns"
                    /\ UNCHANGED state
    /\ UNCHANGED <<orderVars, progVars, req_log, lockVars, lwVars, dashVars, RUN_ID, now, wordlistFile, resultsFile, cacheFile,
                   trustedInRun, last, target, SHOULD_ABORT, process, attempt, brute,
                   found_any, save_iter, results_str, cache_json, cfg, self_domains,
                   cur, total_count, recon_results, summaryFile, scan_status,
                   thread_started, hist>>

\* Scanner._update_count on the DNSScanner object
DnsCounted(success) ==
    [inst EXCEPT !["a"].finished_count = @ + 1,
                 !["a"].cache_dict.finished = scanner.finished_count + 1,
                 !["a"].success_count = IF success THEN @ + 1 ELSE @]

\* DNSScanner.single_bruter line 47-51, 61-63: the request is answered, found
\* is the status code, the (unwritten) results are saved, the host is put on
\* self.domains_queue; the finally counts the unit
DnsFound(w) ==
    /\ process = "running"
    /\ opc = "dns"
    /\ pc[w] = "request"
    /\ Outcomes(<<attempt[w], "">>) \cap StatusCodes # {}
    /\ LET k == "DNSScanner"
           r == _save_results(k, scanner.cache_dict, cacheFile, resultsFile[k],
                              <<Subdomain(attempt[w])>>)
       IN /\ cacheFile' = r.doc
          /\ resultsFile' = [resultsFile EXCEPT ![k] = r.results]
    /\ self_domains' = Append(self_domains, Subdomain(attempt[w]))
    /\ inst' = DnsCounted(TRUE)
    /\ pc' = [pc EXCEPT ![w] = "loop"]
    /\ UNCHANGED <<orderVars, progVars, req_log, lockVars, lwVars, dashVars, RUN_ID, now, wordlistFile, trustedInRun, last,
                   target, SHOULD_ABORT, process, main, words_queue, attempt, brute,
                   found_any, save_iter, results_str, cache_json, cfg, state, opc,
                   domains, cur, total_count, recon_results, summaryFile, scan_status,
                   thread_started, scan_state, hist>>

\* line 52-55, 61-63: a transient network fault: continue, through the finally
DnsTransient(w) ==
    /\ process = "running"
    /\ opc = "dns"
    /\ pc[w] = "request"
    /\ Outcomes(<<attempt[w], "">>) \cap TransientFaults # {}
    /\ inst' = DnsCounted(FALSE)
    /\ pc' = [pc EXCEPT ![w] = "loop"]
    /\ UNCHANGED <<orderVars, progVars, req_log, lockVars, lwVars, dashVars, RUN_ID, now, wordlistFile, resultsFile, cacheFile,
                   trustedInRun, last, target, SHOULD_ABORT, process, main,
                   words_queue, attempt, brute, found_any, save_iter, results_str,
                   cache_json, reconVars>>

\* line 56-63: any other exception: the flag is set, State Fail is logged,
\* exit(-1) raises SystemExit in this thread, which ends after the finally
DnsUnknownFault(w) ==
    /\ process = "running"
    /\ opc = "dns"
    /\ pc[w] = "request"
    /\ "Exception" \in Outcomes(<<attempt[w], "">>)
    /\ SHOULD_ABORT' = TRUE
    /\ scan_state' = "Fail"
    /\ inst' = DnsCounted(FALSE)
    /\ pc' = [pc EXCEPT ![w] = "done"]
    /\ hist' = [hist EXCEPT !.unknown = TRUE]
    /\ UNCHANGED <<orderVars, progVars, req_log, lockVars, lwVars, dashVars, RUN_ID, now, wordlistFile, resultsFile, cacheFile,
                   trustedInRun, last, target, process, main, words_queue, attempt,
                   brute, found_any, save_iter, results_str, cache_json, cfg, state,
                   opc, domains, self_domains, cur, total_count, recon_results,
                   summaryFile, scan_status, thread_started>>

\* DNSScanner._start_scanner line 73-76 and start_scanner line 287-289: the
\* threads are joined, State Complete is logged; _setup_targets returns its
\* local queue and start_recon logs State Running (line 132-133)
DnsJoin ==
    /\ process = "running"
    /\ opc = "dns"
    /\ \A w \in Workers : pc[w] = "done"
    /\ scan_state' = "Complete"
    /\ main' = "complete"
    /\ state' = "Running"
    /\ opc' = "pop"
    /\ UNCHANGED <<orderVars, progVars, req_log, lockVars, lwVars, cacheVars, dashVars, target, SHOULD_ABORT, process,
                   words_queue, pc, attempt, brute, found_any, save_iter, results_str,
                   cache_json, cfg, domains, self_domains, cur, total_count,
                   recon_results, summaryFile, scan_status, thread_started, hist>>

\* start_recon line 136-141: the next target is popped; the primary target
\* met again is skipped; the progress is updated (its terminal write may
\* raise, which reaches the except of line 160) and the target gets its entry
PopTarget ==
    /\ process = "running"
    /\ opc = "pop"
    /\ domains # <<>>
    /\ domains' = Tail(domains)
    /\ IF total_count > 0 /\ Head(domains) = TargetUrl
       THEN UNCHANGED <<state, opc, cur, recon_results, scan_status, thread_started,
                        hist>>
       ELSE \E fault \in BOOLEAN :
               IF fault
               THEN /\ state' = "Fail"
                    /\ opc' = "end"
                    /\ hist' = [hist EXCEPT !.fault = TRUE]
                    /\ UNCHANGED <<cur, recon_results, scan_status, thread_started>>
               ELSE /\ cur' = [target |-> Head(domains), idx |-> 1]
                    /\ recon_results' =
                          [recon_results EXCEPT ![Head(domains)] =
                              [NoReconResults[Head(domains)] EXCEPT !.present = TRUE]]
                    /\ scan_status' = [k \in ScanClasses |-> "idle"]
                    /\ thread_started' = {}
                    /\ opc' = "launch"
                    /\ UNCHANGED <<state, hist>>
    /\ UNCHANGED <<orderVars, progVars, lockVars, lwVars, cacheVars, dashVars, poolVars, cfg, self_domains,
                   total_count, summaryFile, scan_state>>

\* what WebRecon._save_results leaves of results_summary.txt
SummarySaved ==
    _save_results("WebRecon", ReconCacheDict, cacheFile, summaryFile,
                  <<recon_results>>).results

\* Mutant of DoScanBegin: building a scanner object resets the abort flag.
DoScanBegin_resets_abort ==
    /\ process = "running"
    /\ opc = "launch"
    /\ cur.idx <= Len(cfg.scans)
    /\ scan_status[cfg.scans[cur.idx]] = "idle"
    /\ SHOULD_ABORT' = FALSE
    /\ scan_status' = [scan_status EXCEPT ![cfg.scans[cur.idx]] = "running"]
    /\ recon_results' =
          [recon_results EXCEPT ![cur.target].scans[cfg.scans[cur.idx]] =
              [set |-> TRUE, data |-> <<>>]]
    /\ UNCHANGED <<orderVars, progVars, req_log, lockVars, lwVars, cacheVars, dashVars, target, process, main, words_queue, pc,
                   attempt, brute, found_any, save_iter, results_str, cache_json, cfg,
                   state, opc, domains, self_domains, cur, total_count, summaryFile,
                   thread_started, scan_state, hist>>

\* _start_scans_for_target line 124, evaluating its argument: _do_scan is
\* called in the orchestrator's thread (line 173-175): the scan kind gets its
\* entry and the scanner object is built
DoScanBegin ==
    /\ process = "running"
    /\ opc = "launch"
    /\ cur.idx <= Len(cfg.scans)
    /\ scan_status[cfg.scans[cur.idx]] = "idle"
    /\ scan_status' = [scan_status EXCEPT ![cfg.scans[cur.idx]] = "running"]
    /\ recon_results' =
          [recon_results EXCEPT ![cur.target].scans[cfg.scans[cur.idx]] =
              [set |-> TRUE, data |-> <<>>]]
    /\ UNCHANGED <<orderVars, progVars, lockVars, lwVars, cacheVars, dashVars, poolVars, cfg, state, opc, domains,
                   self_domains, cur, total_count, summaryFile, thread_started,
                   scan_state, hist>>

\* Mutant of DoScanRaises: the exception of a target is not caught in the
\* loop and reaches the except of start_recon.
DoScanRaises_propagates ==
    /\ process = "running"
    /\ opc = "launch"
    /\ cur.idx <= Len(cfg.scans)
    /\ scan_status[cfg.scans[cur.idx]] = "running"
    /\ hist' = [hist EXCEPT !.raised = TRUE]
    /\ total_count' = total_count + 1
    /\ summaryFile' = SummarySaved
    /\ state' = "Fail"
    /\ opc' = "end"
    /\ UNCHANGED <<orderVars, progVars, lockVars, lwVars, cacheVars, dashVars, poolVars, cfg, domains,
                   self_domains, cur, recon_results, scan_status, thread_started,
                   scan_state>>

\* the constructor of the scanner raises (load_words: InvalidPathLoad): the
\* exception leaves _start_scans_for_target, is logged at line 146-147, and
\* the finally counts the target and saves the summary (line 148-152)
DoScanRaises ==
    /\ process = "running"
    /\ opc = "launch"
    /\ cur.idx <= Len(cfg.scans)
    /\ scan_status[cfg.scans[cur.idx]] = "running"
    /\ hist' = [hist EXCEPT !.raised = TRUE]
    /\ total_count' = total_count + 1
    /\ summaryFile' = SummarySaved
    /\ opc' = "pop"
    /\ UNCHANGED <<orderVars, progVars, lockVars, lwVars, cacheVars, dashVars, poolVars, cfg, state, domains,
                   self_domains, cur, recon_results, scan_status, thread_started,
                   scan_state>>

\* the payloads a scan may return
Payloads == {<<>>, <<[code |-> "200", urls |-> <<<<1, "">>>>]>>}

\* _do_scan line 176-178: start_scanner runs the whole scan in the
\* orchestrator's thread and returns the results, which are merged when there
\* are any (a ContentScanner pool that starts with the abort flag set returns
\* none); an exception inside start_scanner sets the flag and kills the
\* process (base_scanner.py line 290-294)
DoScanEnd ==
    /\ process = "running"
    /\ opc = "launch"
    /\ cur.idx <= Len(cfg.scans)
    /\ scan_status[cfg.scans[cur.idx]] = "running"
    /\ \E results \in Payloads, killed \in BOOLEAN :
          /\ (cfg.scans[cur.idx] = "ContentScanner" /\ SHOULD_ABORT) => results = <<>>
          /\ IF killed
             THEN /\ SHOULD_ABORT' = TRUE
                  /\ process' = "killed"
                  /\ UNCHANGED <<opc, scan_status, recon_results>>
             ELSE /\ scan_status' = [scan_status EXCEPT ![cfg.scans[cur.idx]] = "finished"]
                  /\ recon_results' =
                        IF results # <<>>
                        THEN [recon_results EXCEPT
                                 ![cur.target].scans[cfg.scans[cur.idx]].data = results]
                        ELSE recon_results
                  /\ opc' = "thread"
                  /\ UNCHANGED <<SHOULD_ABORT, process>>
    /\ UNCHANGED <<orderVars, progVars, req_log, lockVars, lwVars, cacheVars, dashVars, target, main, words_queue, pc, attempt,
                   brute, found_any, save_iter, results_str, cache_json, cfg, state,
                   domains, self_domains, cur, total_count, summaryFile,
                   thread_started, scan_state, hist>>

\* line 124-126: threading.Thread(target=<what _do_scan returned, None>) is
\* built and started, and the loop goes on to the next class of self._scans
ThreadStart ==
    /\ process = "running"
    /\ opc = "thread"
    /\ thread_started' = thread_started \cup {cfg.scans[cur.idx]}
    /\ cur' = [cur EXCEPT !.idx = @ + 1]
    /\ opc' = "launch"
    /\ UNCHANGED <<orderVars, progVars, lockVars, lwVars, cacheVars, dashVars, poolVars, cfg, state, domains,
                   self_domains, total_count, recon_results, summaryFile, scan_status,
                   scan_state, hist>>

\* line 144-152: the threads are joined; the finally counts the target and
\* saves the summary
JoinAll ==
    /\ process = "running"
    /\ opc = "launch"
    /\ cur.idx > Len(cfg.scans)
    /\ total_count' = total_count + 1
    /\ summaryFile' = SummarySaved
    /\ opc' = "pop"
    /\ UNCHANGED <<orderVars, progVars, lockVars, lwVars, cacheVars, dashVars, poolVars, cfg, state, domains,
                   self_domains, cur, recon_results, scan_status, thread_started,
                   scan_state, hist>>

\* line 154-158: the queue is empty: the progress is updated (its terminal
\* write may raise), State Complete is logged and the cache file is cleared
FinishRecon ==
    /\ process = "running"
    /\ opc = "pop"
    /\ domains = <<>>
    /\ opc' = "end"
    /\ \E fault \in BOOLEAN :
          IF fault
          THEN /\ state' = "Fail"
               /\ hist' = [hist EXCEPT !.fault = TRUE]
               /\ UNCHANGED cacheFile
          ELSE /\ state' = "Complete"
               /\ cacheFile' = _clear_cache_file("WebRecon", cacheFile)
               /\ UNCHANGED hist
    /\ UNCHANGED <<orderVars, progVars, lockVars, lwVars, dashVars, poolVars, RUN_ID, now, wordlistFile, resultsFile,
                   inst, trustedInRun, last, cfg, domains, self_domains, cur,
                   total_count, recon_results, summaryFile, scan_status,
                   thread_started, scan_state>>

ReconNext ==
    \/ SetupTargets
    \/ \E w \in Workers : CheckEmpty(w)
    \/ \E w \in Workers : CheckAbort(w)
    \/ \E w \in Workers : Dequeue(w)
    \/ \E w \in Workers : DnsFound(w)
    \/ \E w \in Workers : DnsTransient(w)
    \/ \E w \in Workers : DnsUnknownFault(w)
    \/ DnsJoin
    \/ PopTarget
    \/ DoScanBegin
    \/ DoScanRaises
    \/ DoScanEnd
    \/ ThreadStart
    \/ JoinAll
    \/ FinishRecon

\* the outcomes of a request of the DNSScanner
DnsOutcomes == {"200"} \cup TransientFaults \cup {"Exception"}

\* the runs: with or without subdomain discovery, one or two scan classes,
\* the subdomain wordlist there or not
ReconInit ==
    /\ PoolIdle!2 /\ PoolIdle!5 /\ PoolIdle!6
    /\ PoolIdle!7 /\ PoolIdle!8 /\ PoolIdle!9 /\ PoolIdle!10 /\ PoolIdle!11
    /\ PoolIdle!12 /\ PoolIdle!13
    /\ process = "running"
    /\ main = "init"
    /\ target = [base |-> [t \in Tokens |-> DnsOutcomes], variant |-> {}]
    /\ CacheIdle!1 /\ CacheIdle!2 /\ CacheIdle!4 /\ CacheIdle!5 /\ CacheIdle!6
    /\ CacheIdle!7 /\ CacheIdle!8
    /\ wordlistFile \in {NoFile, File(<<1, 2>>)}
    /\ state = "Setup"
    /\ opc = "setup"
    /\ domains = <<>>
    /\ self_domains = <<>>
    /\ cur = [target |-> TargetUrl, idx |-> 0]
    /\ total_count = 0
    /\ recon_results = NoReconResults
    /\ summaryFile = NoFile
    /\ scan_status = [k \in ScanClasses |-> "idle"]
    /\ thread_started = {}
    /\ scan_state = "Setup"
    /\ hist = HistNone
    /\ cfg \in [dns_recursion : BOOLEAN,
                scans : {<<"ContentScanner">>, <<"ContentScanner", "NmapScanner">>}]

-----------------------------------------------------------------------------
(* Two scanner objects of two scan kinds on one host, each in its own       *)
(* thread, with the steps of _save_results / _update_cache_results apart    *)
(* and ScanManager._CACHE_MUTEX explicit.                                   *)

\* the class of each object
LockKind(i) == IF i = "a" THEN "ContentScanner" ELSE "NmapScanner"

LockIdle ==
    /\ CACHE_MUTEX = "free"
    /\ lpc = [i \in Insts |-> "idle"]
    /\ ljson = [i \in Insts |-> <<>>]
    /\ written = [i \in Insts |-> <<>>]

\* ScanManager.__init__ line 48-51: the load, which creates a missing
\* document, runs under the lock
LockConstruct(i) ==
    /\ ~inst[i].alive
    /\ CACHE_MUTEX = "free"
    /\ LET k == LockKind(i)
           r == _load_cache_if_exists(k, cacheFile, resultsFile[k], wordlistFile,
                                      RUN_ID, now)
       IN /\ cacheFile' = r.doc
          /\ resultsFile' = IF ~r.use_prev_cache /\ WRITE_RESULTS(k)
                            THEN [resultsFile EXCEPT ![k] = NoFile]
                            ELSE resultsFile
          /\ inst' = [inst EXCEPT ![i] =
                         [NoInst EXCEPT !.alive = TRUE, !.kind = k,
                                        !.cache_dict = r.cache_dict,
                                        !.use_prev_cache = r.use_prev_cache,
                                        !.total_count = MaxFlushes]]
    /\ UNCHANGED <<orderVars, progVars, lockVars, lwVars, dashVars, poolVars, reconVars, RUN_ID, now,
                   wordlistFile, trustedInRun, last>>

\* _update_progress_status line 211-212: the finished count is written to the
\* object's record under the lock
LockCount(i) ==
    /\ inst[i].alive
    /\ lpc[i] = "idle"
    /\ CACHE_MUTEX = "free"
    /\ inst[i].finished_count < MaxFlushes
    /\ inst' = [inst EXCEPT ![i].finished_count = @ + 1,
                            ![i].cache_dict.finished = inst[i].finished_count + 1]
    /\ UNCHANGED <<orderVars, progVars, lockVars, lwVars, dashVars, poolVars, reconVars, RUN_ID, now,
                   wordlistFile, resultsFile, cacheFile, trustedInRun, last>>

\* Mutant of LockBegin: _save_results does not take the lock.
LockBegin_no_lock(i) ==
    /\ inst[i].alive
    /\ lpc[i] = "idle"
    /\ inst[i].finished_count > 0
    /\ CACHE_MUTEX' = i
    /\ LET k == LockKind(i)
           f == File(<<inst[i].finished_count>>)
       IN /\ resultsFile' = [resultsFile EXCEPT ![k] = f]
          /\ inst' = [inst EXCEPT ![i].cache_dict.results_filehash = get_filehash(f)]
    /\ lpc' = [lpc EXCEPT ![i] = "read"]
    /\ UNCHANGED <<orderVars, progVars, lwVars, dashVars, poolVars, reconVars, RUN_ID, now, wordlistFile,
                   cacheFile, trustedInRun, last, ljson, written>>

\* _save_results line 91-94 and _update_cache_results line 99-100: the lock is
\* taken, the artifact is written and its hash put into the object's record
LockBegin(i) ==
    /\ inst[i].alive
    /\ lpc[i] = "idle"
    /\ inst[i].finished_count > 0
    /\ CACHE_MUTEX = "free"
    /\ CACHE_MUTEX' = i
    /\ LET k == LockKind(i)
           f == File(<<inst[i].finished_count>>)
       IN /\ resultsFile' = [resultsFile EXCEPT ![k] = f]
          /\ inst' = [inst EXCEPT ![i].cache_dict.results_filehash = get_filehash(f)]
    /\ lpc' = [lpc EXCEPT ![i] = "read"]
    /\ UNCHANGED <<orderVars, progVars, lwVars, dashVars, poolVars, reconVars, RUN_ID, now, wordlistFile,
                   cacheFile, trustedInRun, last, ljson, written>>

\* line 101-102: the document is read; an exception leaves the with blocks,
\* which release the lock
LockRead(i) ==
    /\ lpc[i] = "read"
    /\ IF cacheFile.state # "ok"
       THEN /\ lpc' = [lpc EXCEPT ![i] = "raised"]
            /\ CACHE_MUTEX' = "free"
            /\ UNCHANGED ljson
       ELSE /\ lpc' = [lpc EXCEPT ![i] = "write"]
            /\ ljson' = [ljson EXCEPT ![i] = <<cacheFile>>]
            /\ UNCHANGED CACHE_MUTEX
    /\ UNCHANGED <<orderVars, progVars, lwVars, cacheVars, dashVars, poolVars, reconVars, written>>

\* Mutant of LockWrite: the record is written with the time of the write.
LockWrite_refresh_timestamp(i) ==
    /\ lpc[i] = "write"
    /\ LET k == LockKind(i)
           u == _update_cache_results(k, inst[i].cache_dict, ljson[i][1], resultsFile[k])
           rec == [u.doc.scanners[k][1] EXCEPT !.timestamp = now]
       IN /\ cacheFile' = [u.doc EXCEPT !.scanners[k] = <<rec>>]
          /\ written' = [written EXCEPT ![i] = <<rec>>]
    /\ ljson' = [ljson EXCEPT ![i] = <<>>]
    /\ lpc' = [lpc EXCEPT ![i] = "idle"]
    /\ CACHE_MUTEX' = "free"
    /\ UNCHANGED <<orderVars, progVars, lwVars, dashVars, poolVars, reconVars, RUN_ID, now, wordlistFile,
                   resultsFile, inst, trustedInRun, last>>

\* line 103-105: the kind's record is replaced in what was read, the document
\* is written, the lock is released
LockWrite(i) ==
    /\ lpc[i] = "write"
    /\ LET k == LockKind(i)
           u == _update_cache_results(k, inst[i].cache_dict, ljson[i][1], resultsFile[k])
       IN /\ cacheFile' = u.doc
          /\ written' = [written EXCEPT ![i] = u.doc.scanners[k]]
    /\ ljson' = [ljson EXCEPT ![i] = <<>>]
    /\ lpc' = [lpc EXCEPT ![i] = "idle"]
    /\ CACHE_MUTEX' = "free"
    /\ UNCHANGED <<orderVars, progVars, lwVars, dashVars, poolVars, reconVars, RUN_ID, now, wordlistFile,
                   resultsFile, inst, trustedInRun, last>>

\* _clear_cache_file, under the lock: the document is removed
LockClear(i) ==
    /\ inst[i].alive
    /\ lpc[i] = "idle"
    /\ CACHE_MUTEX = "free"
    /\ cacheFile.state # "missing"
    /\ cacheFile' = _clear_cache_file(LockKind(i), cacheFile)
    /\ written' = [j \in Insts |-> <<>>]
    /\ UNCHANGED <<orderVars, progVars, lwVars, dashVars, poolVars, reconVars, RUN_ID, now, wordlistFile,
                   resultsFile, inst, trustedInRun, last, CACHE_MUTEX, lpc, ljson>>

\* the process ends between two persists and the next one starts: a new
\* RunID, no scanner objects, the lock free
LockNewRun ==
    /\ RUN_ID < MaxRuns
    /\ \A i \in Insts : lpc[i] \in {"idle", "raised"}
    /\ RUN_ID' = RUN_ID + 1
    /\ inst' = [i \in Insts |-> NoInst]
    /\ lpc' = [i \in Insts |-> "idle"]
    /\ written' = [i \in Insts |-> <<>>]
    /\ UNCHANGED <<orderVars, progVars, lwVars, dashVars, poolVars, reconVars, now, wordlistFile, resultsFile,
                   cacheFile, trustedInRun, last, CACHE_MUTEX, ljson>>

LockNext ==
    \/ \E i \in Insts : LockConstruct(i)
    \/ \E i \in Insts : LockCount(i)
    \/ \E i \in Insts : LockBegin(i)
    \/ \E i \in Insts : LockRead(i)
    \/ \E i \in Insts : LockWrite(i)
    \/ \E i \in Insts : LockClear(i)
    \/ LockNewRun
    \/ Tick

-----------------------------------------------------------------------------
(* The progress status of a scanner object: Scanner._update_count and       *)
(* ScanManager._update_progress_status, serialized by _count_mutex and      *)
(* _current_progress_mutex.                                                *)

\* the values taken for OutputProgBarParams.ProgBarIntvl
ProgBarIntvls == {25, 50}

\* Mutant of _update_progress_status: the test that the percentage is a
\* multiple of the interval is left out.
_update_progress_status_any_rise(perc, finished_c, total_c, intvl, force_update) ==
    LET progress == (100 * finished_c) \div total_c
        emit == progress > perc \/ force_update
    IN [progress |-> progress,
        emit |-> emit,
        perc |-> IF emit THEN progress ELSE perc]

\* ScanManager._update_progress_status line 210-219: the percentage, whether
\* the progress bar is logged, and self._current_progress_perc after the call
_update_progress_status(perc, finished_c, total_c, intvl, force_update) ==
    LET progress == (100 * finished_c) \div total_c
        emit == (progress % intvl = 0 /\ progress > perc) \/ force_update
    IN [progress |-> progress,
        emit |-> emit,
        perc |-> IF emit THEN progress ELSE perc]

ProgIdle ==
    prog = [intvl |-> 25, total |-> 1, finished |-> 0, perc |-> 0, emitted |-> <<>>]

\* a scanner object built over a queue of 1..MaxUnits tokens:
\* _current_progress_perc = int(), _finished_count = 0
ProgInit ==
    prog \in [intvl : ProgBarIntvls, total : 1..MaxUnits, finished : {0}, perc : {0},
              emitted : {<<>>}]

\* Scanner._update_count: under _count_mutex the finished count grows and
\* _update_progress_status is called with it
UnitCompleted(force_update) ==
    /\ prog.finished < prog.total
    /\ LET r == _update_progress_status(prog.perc, prog.finished + 1, prog.total,
                                        prog.intvl, force_update)
       IN prog' = [prog EXCEPT
                     !.finished = @ + 1,
                     !.perc = r.perc,
                     !.emitted = IF r.emit
                                 THEN Append(@, [progress |-> r.progress,
                                                 before |-> prog.perc,
                                                 forced |-> force_update])
                                 ELSE @]
    /\ UNCHANGED <<lwVars, cacheVars, dashVars, poolVars, reconVars, lockVars, orderVars>>

ProgNext == \E force_update \in BOOLEAN : UnitCompleted(force_update)

-----------------------------------------------------------------------------
(* The locks: Scanner._count_mutex and ScanManager._current_progress_mutex  *)
(* of each scanner object and the one ScanManager._CACHE_MUTEX, all         *)
(* threading.RLock, taken by the threads of two scanner objects. Only the   *)
(* acquires and releases of each method are kept.                           *)

\* the threads: NumWorkers per scanner object
OrderThreads == Insts \X (1..NumWorkers)

\* self._count_mutex = threading.RLock()
CountMutex(i) == [name |-> "_count_mutex", of |-> i]

\* self._current_progress_mutex = threading.RLock()
ProgressMutex(i) == [name |-> "_current_progress_mutex", of |-> i]

\* _CACHE_MUTEX = threading.RLock(), a class attribute
CacheMutex == [name |-> "_CACHE_MUTEX", of |-> "ScanManager"]

\* entering and leaving a `with lock:` block
Acquire(l) == [op |-> "acquire", lock |-> l]

Release(l) == [op |-> "release", lock |-> l]

\* Scanner._update_count: with self._count_mutex, and in it
\* _update_progress_status: with self._current_progress_mutex, and in it
\* with ScanManager._CACHE_MUTEX around the write of the finished count; the
\* status logs that follow take no lock
_update_count_locks(i) ==
    <<Acquire(CountMutex(i)), Acquire(ProgressMutex(i)), Acquire(CacheMutex),
      Release(CacheMutex), Release(ProgressMutex(i)), Release(CountMutex(i))>>

\* Mutant of _save_results_locks: the persist under the cache lock also takes
\* the object's progress lock.
_save_results_locks_takes_progress(i) ==
    <<Acquire(CacheMutex), Acquire(ProgressMutex(i)),
      Release(ProgressMutex(i)), Release(CacheMutex)>>

\* ScanManager._save_results: with ScanManager._CACHE_MUTEX around the write
\* of the artifact, and in it _update_cache_results, which takes the same lock
\* again around the persist
_save_results_locks(i) ==
    <<Acquire(CacheMutex), Acquire(CacheMutex),
      Release(CacheMutex), Release(CacheMutex)>>

\* ScanManager._load_cache_if_exists: with ScanManager._CACHE_MUTEX around
\* the read or the creation of the document; _log_progress takes no lock
_load_cache_if_exists_locks(i) ==
    <<Acquire(CacheMutex), Release(CacheMutex)>>

\* the methods a thread of scanner object i runs
LockingMethods(i) ==
    {_update_count_locks(i), _save_results_locks(i), _load_cache_if_exists_locks(i)}

OrderIdle ==
    /\ tprog = [t \in OrderThreads |-> <<>>]
    /\ held = [t \in OrderThreads |-> <<>>]

\* the lock the thread is asking for, if it stands at an acquire
Wants(t) ==
    IF tprog[t] # <<>> /\ Head(tprog[t]).op = "acquire"
    THEN <<Head(tprog[t]).lock>> ELSE <<>>

\* the threads other than t that hold lock l
OtherHolders(t, l) ==
    {u \in OrderThreads \ {t} : \E j \in 1..Len(held[u]) : held[u][j] = l}

\* a thread of object t[1] calls one of the methods
CallMethod(t) ==
    /\ tprog[t] = <<>>
    /\ \E m \in LockingMethods(t[1]) : tprog' = [tprog EXCEPT ![t] = m]
    /\ UNCHANGED <<lwVars, cacheVars, dashVars, poolVars, reconVars, lockVars, progVars, held>>

\* `with lock:` entered: an RLock is given to a thread when no other thread
\* holds it; the thread blocks until then
EnterWith(t) ==
    /\ Wants(t) # <<>>
    /\ OtherHolders(t, Wants(t)[1]) = {}
    /\ held' = [held EXCEPT ![t] = Append(@, Wants(t)[1])]
    /\ tprog' = [tprog EXCEPT ![t] = Tail(@)]
    /\ UNCHANGED <<lwVars, cacheVars, dashVars, poolVars, reconVars, lockVars, progVars>>

\* the end of a `with lock:` block
LeaveWith(t) ==
    /\ tprog[t] # <<>>
    /\ Head(tprog[t]).op = "release"
    /\ held[t] # <<>>
    /\ held[t][Len(held[t])] = Head(tprog[t]).lock
    /\ held' = [held EXCEPT ![t] = SubSeq(@, 1, Len(@) - 1)]
    /\ tprog' = [tprog EXCEPT ![t] = Tail(@)]
    /\ UNCHANGED <<lwVars, cacheVars, dashVars, poolVars, reconVars, lockVars, progVars>>

\* an exception inside the with blocks (json.load of a corrupt document, a
\* division by a total of 0): every block the thread is in is left and its
\* lock released
RaiseInWith(t) ==
    /\ held[t] # <<>>
    /\ held' = [held EXCEPT ![t] = <<>>]
    /\ tprog' = [tprog EXCEPT ![t] = <<>>]
    /\ UNCHANGED <<lwVars, cacheVars, dashVars, poolVars, reconVars, lockVars, progVars>>

OrderNext ==
    \/ \E t \in OrderThreads : CallMethod(t)
    \/ \E t \in OrderThreads : EnterWith(t)
    \/ \E t \in OrderThreads : LeaveWith(t)
    \/ \E t \in OrderThreads : RaiseInWith(t)

-----------------------------------------------------------------------------
(* The specifications.                                                     *)

InitLoadWords == LwInit /\ CacheIdle /\ DashIdle /\ PoolIdle /\ ReconIdle /\ LockIdle /\ ProgIdle /\ OrderIdle

SpecLoadWords == InitLoadWords /\ [][LwNext]_vars

InitCache == CacheIdle /\ LwIdle /\ DashIdle /\ PoolIdle /\ ReconIdle /\ LockIdle /\ ProgIdle /\ OrderIdle

SpecCache == InitCache /\ [][CacheNext]_vars

InitDashboard == DashIdle /\ LwIdle /\ CacheIdle /\ PoolIdle /\ ReconIdle /\ LockIdle /\ ProgIdle /\ OrderIdle

SpecDashboard == InitDashboard /\ [][DashNext]_vars

InitDashRace == RaceInit /\ LwIdle /\ CacheIdle /\ PoolIdle /\ ReconIdle /\ LockIdle /\ ProgIdle /\ OrderIdle

SpecDashRace == InitDashRace /\ [][RaceNext]_vars

InitScan == ScanInit /\ LwIdle /\ DashIdle /\ LockIdle /\ ProgIdle /\ OrderIdle

SpecScan == InitScan /\ [][ScanNext]_vars

InitPool == PoolInit /\ LwIdle /\ DashIdle /\ LockIdle /\ ProgIdle /\ OrderIdle

SpecPool == InitPool /\ [][PoolNext]_vars

\* the steps of the thread of worker w
WorkerStep(w) ==
    \/ CheckEmpty(w) \/ CheckAbort(w) \/ Dequeue(w)
    \/ \E scode \in StatusCodes : Respond(w, scode)
    \/ TransientFault(w) \/ RedirectFault(w) \/ UnknownFault(w) \/ Kill(w)
    \/ SaveIterStart(w) \/ SaveIterEnd(w) \/ SaveWrite(w) \/ SaveDump(w)
    \/ UpdateCountOf(w)

\* every thread that can run is run in the end: each worker thread, and the
\* main thread in start_scanner and _do_scan
PoolFairness ==
    /\ \A w \in Workers : WF_vars(WorkerStep(w))
    /\ WF_vars(Build)
    /\ WF_vars(JoinAndSave)
    /\ WF_vars(DoScanMerge)

SpecPoolFair == InitPool /\ [][PoolNext]_vars /\ PoolFairness

InitRecon == ReconInit /\ LwIdle /\ DashIdle /\ LockIdle /\ ProgIdle /\ OrderIdle

SpecRecon == InitRecon /\ [][ReconNext]_vars

InitLock == LockIdle /\ CacheIdle /\ LwIdle /\ DashIdle /\ PoolIdle /\ ReconIdle /\ ProgIdle /\ OrderIdle

SpecLock == InitLock /\ [][LockNext]_vars

InitProgress ==
    ProgInit /\ LwIdle /\ CacheIdle /\ DashIdle /\ PoolIdle /\ ReconIdle /\ LockIdle
    /\ OrderIdle

SpecProgress == InitProgress /\ [][ProgNext]_vars

InitLockOrder ==
    OrderIdle /\ LwIdle /\ CacheIdle /\ DashIdle /\ PoolIdle /\ ReconIdle /\ LockIdle
    /\ ProgIdle

SpecLockOrder == InitLockOrder /\ [][OrderNext]_vars

-----------------------------------------------------------------------------
(* The properties.                                                         *)

\* C2: for a wordlist of K tokens and a finished count F, 0 <= F <= K, the
\* queue load_words builds holds exactly the tokens from index max(F-1, 0)
\* (0-based) to the end, in wordlist order; its length is K - max(F-1, 0),
\* never more than K, and for F >= 1 its first token is the already-finished
\* token F-1 and the only one of the finished prefix it holds.
C2_ResumedQueue ==
    (lw_out.state = "queue") =>
        LET K == Len(lw_wordlist.data)
            F == lw_finished
            off == IF F >= 1 THEN F - 1 ELSE 0
            q == lw_out.words
        IN /\ Len(q) = K - off
           /\ Len(q) <= K
           /\ \A i \in 1..Len(q) : q[i] = lw_wordlist.data[off + i]
           /\ (F >= 1) => (K - Len(q) = F - 1)

\* C2 witness: a resumed queue that holds one finished token again.
C2_Witness ==
    /\ lw_out.state = "queue"
    /\ lw_finished = 2
    /\ Len(lw_wordlist.data) = 3
    /\ Len(lw_out.words) = 2
    /\ lw_out.words[1] = lw_wordlist.data[2]


\* the four checks as the last load met them
LoadAllFour ==
    last.okResults /\ last.okWordlist /\ last.okAge /\ last.okRunId

\* C4: load trusts a stored record (sets _use_prev_cache and returns its
\* finished count) only if the stored resultsHash and wordlistHash equal the
\* hashes of the live files, the age is under CacheMaxAge and the stored runID
\* differs from the current one; with a record stored and any of the four
\* failing, the cache is not trusted and the finished count is 0.
C4_TrustNeedsAllFour ==
    (last.op = "load") =>
        LET o == inst[last.who]
        IN /\ o.use_prev_cache =>
                 /\ last.hasRecord
                 /\ LoadAllFour
                 /\ o.cache_dict.finished = last.stored
           /\ (last.hasRecord /\ ~LoadAllFour) =>
                 /\ ~o.use_prev_cache
                 /\ o.cache_dict.finished = 0

\* C4 witness: a load that met a record failing the runID check alone.
C4_Witness ==
    /\ last.op = "load"
    /\ last.hasRecord
    /\ last.okResults /\ last.okWordlist /\ last.okAge /\ ~last.okRunId
    /\ inst[last.who].alive
    /\ ~inst[last.who].use_prev_cache

\* the other single failures, and a trusted load, are reached as well
C4_OnlyResultsFail ==
    /\ last.op = "load" /\ last.hasRecord
    /\ ~last.okResults /\ last.okWordlist /\ last.okAge /\ last.okRunId

C4_OnlyWordlistFail ==
    /\ last.op = "load" /\ last.hasRecord
    /\ last.okResults /\ ~last.okWordlist /\ last.okAge /\ last.okRunId

C4_OnlyAgeFail ==
    /\ last.op = "load" /\ last.hasRecord
    /\ last.okResults /\ last.okWordlist /\ ~last.okAge /\ last.okRunId

C4_Trusted ==
    /\ last.op = "load" /\ inst[last.who].use_prev_cache
    /\ inst[last.who].cache_dict.finished > 0

\* C7: a persist that follows a persist of the same scanner object with the
\* same finished count and the same results artifact leaves the CacheDocument
\* as the first persist left it.
C7_PersistIdempotent ==
    [][(last'.op = "persist" /\ last'.twice) => cacheFile' = cacheFile]_vars

\* C7 witness: a second persist in a row of a finished count above 0.
C7_Witness ==
    /\ last.op = "persist"
    /\ last.twice
    /\ last.fin > 0
    /\ cacheFile.state = "ok"
    /\ cacheFile.scanners[last.kind] # <<>>

\* C8: a load that does not trust the cache raises nothing and gives a fresh
\* record: finished count 0, the hash of the live wordlist, the current RunID
\* and the current time; the scan starts from the first token.
C8_UntrustedLoadIsFresh ==
    (last.op = "load" /\ ~(last.hasRecord /\ LoadAllFour /\ WRITE_RESULTS(last.kind))) =>
        /\ ~last.raised
        /\ inst[last.who].alive
        /\ ~inst[last.who].use_prev_cache
        /\ inst[last.who].cache_dict.finished = 0
        /\ inst[last.who].cache_dict.wordlist_filehash = [tag |-> "digest", of |-> wordlistFile.data]
        /\ inst[last.who].cache_dict.run_id = RUN_ID
        /\ inst[last.who].cache_dict.timestamp = now
        /\ inst[last.who].total_count = Len(wordlistFile.data)

\* C8 witness: a load that met an unparsable document.
C8_Witness ==
    /\ last.op = "load"
    /\ cacheFile.state = "corrupt"
    /\ inst[last.who].alive
    /\ inst[last.who].kind = "ContentScanner"

\* further cases of C8: a record that fails a check, and no document at all
C8_RecordNotTrusted ==
    /\ last.op = "load" /\ last.hasRecord /\ ~LoadAllFour /\ last.stored > 0

\* C9: a cache fault during persist or clear never reaches the caller: no
\* persist and no clear raises.
C9_PersistNeverRaises ==
    ~(last.op \in {"persist", "clear"} /\ last.raised)

\* C10: within one run, a scan kind's record that a load has trusted is not
\* trusted by a later load, whether or not a results flush came in between.
C10_NoSecondTrust ==
    ~(last.op = "load" /\ inst[last.who].use_prev_cache /\ last.again)

\* the lines the registered blocks render to: the content of each plus its
\* delimiter line and its source-name line
RenderedSize ==
    LET RECURSIVE Sum(_)
        Sum(blocks) == IF blocks = <<>> THEN 0
                       ELSE Len(blocks[1].content) + 2 + Sum(Tail(blocks))
    IN Sum(OUTPUT_CONT.Status) + Sum(OUTPUT_CONT.Lines)

\* C6: after any sequence of insert_output, update_status, update_lines and
\* remove_output calls, _OUTPUT_LEN equals the sum of the rendered sizes of
\* the registered blocks (so it is back to its earlier value once a block
\* was registered and unregistered).
C6_TrackedLenIsRendered ==
    OUTPUT_LEN = RenderedSize

\* C1: once a worker has set _SHOULD_ABORT, no worker takes another token
\* off the queue: every step that shortens the queue starts with the flag
\* unset.
C1_NoDequeueAfterAbort ==
    [][Len(words_queue') < Len(words_queue) => ~SHOULD_ABORT]_vars

\* the scan that resumes the interrupted run has completed
ResumedComplete ==
    main = "complete" /\ scanner.alive /\ scanner.use_prev_cache

\* the scan that started without a cache has completed
FreshComplete ==
    main = "complete" /\ scanner.alive /\ ~scanner.use_prev_cache

\* C3: the run after one interrupted at 4 of 10 resumes from token 4 (its
\* queue is the wordlist from the fourth line on), and when it completes its
\* finished count is 10.
C3_ResumeReachesTen ==
    /\ (process = "running" /\ scanner.use_prev_cache)
           => scanner.total_count = 7
    /\ ResumedComplete => scanner.finished_count = 10

\* the result map holds the one hit of line 5 under 200, the one of line 7
\* under 403 and nothing else
OneHitEach ==
    LET rr == scanner.ret_results
    IN /\ Len(rr) = 2
       /\ {rr[1].code, rr[2].code} = {"200", "403"}
       /\ \A j \in 1..2 : rr[j].urls = IF rr[j].code = "200" THEN <<<<5, "">>>>
                                       ELSE <<<<7, "">>>>

\* C5: the scan of the 10-line wordlist ends with exactly one entry under 200,
\* exactly one under 403, nothing else recorded, and a finished count of 10.
C5_EndToEndScan ==
    FreshComplete => (OneHitEach /\ scanner.finished_count = 10)

\* C11: persist replaces the document atomically: a reader in the next
\* process, after the running one was killed at any point, finds a complete
\* document (the earlier or the new one), never a partly written one.
C11_NoPartialDocument ==
    process = "killed" => cacheFile.state # "corrupt"

\* C18: the payload of a scan kind is merged into recon_results only after
\* every worker thread of its pool has exited.
C18_MergeAfterJoin ==
    [][(main' = "merged" /\ main # "merged")
          => \A w \in Workers : pc[w] \in {"done", "raised"}]_vars

C18_Witness ==
    /\ main = "merged"
    /\ recon_results[TargetUrl].scans["ContentScanner"].data # <<>>

\* C13: the abort flag is monotonic: false at the start, and no step of a
\* scanner, a pool or the orchestrator takes it from true back to false.
C13_AbortMonotonic ==
    [][SHOULD_ABORT => SHOULD_ABORT']_vars

\* the flag was set in the discovery scan and the run went on to its end
C13_Witness ==
    SHOULD_ABORT /\ hist.unknown /\ opc = "end" /\ thread_started # {}

\* C14: after an unclassified fault in a worker the flag is set and the whole
\* process ends: the scan is never reported Complete and the run does not go
\* on.
C14_UnknownFaultEndsProcess ==
    hist.unknown => (SHOULD_ABORT /\ scan_state # "Complete" /\ state = "Setup")

\* C15: the queue Setup returns holds the primary target first, followed by
\* every host the discovery scan found.
C15_DiscoveredHostsQueued ==
    (state = "Running" /\ opc = "pop" /\ total_count = 0)
        => domains = <<TargetUrl>> \o self_domains

\* C16: after each target is processed and before the next is popped, the
\* summary on disk holds the whole of recon_results gathered so far.
C16_SummaryAfterEachTarget ==
    (opc = "pop" /\ total_count > 0) => summaryFile = File(<<recon_results>>)

C19_ScanRunsInItsThread ==
    \A k \in ScanClasses : scan_status[k] = "finished" => k \in thread_started

\* two scan kinds of the target in progress at once
TwoScansInProgress ==
    \E k1, k2 \in ScanClasses : k1 # k2 /\ scan_status[k1] = "running"
                                        /\ scan_status[k2] = "running"

\* C20: the State moves only along Setup -> Running -> {Complete, Fail}, and
\* Fail is entered from Setup only.
C20_StateOrder ==
    [][state' # state => <<state, state'>> \in {<<"Setup", "Running">>,
                                                <<"Running", "Complete">>,
                                                <<"Setup", "Fail">>}]_vars

\* C12: the mutations of the document are serialized by the one lock: with
\* the lock free, the document holds for each scan kind the record that kind's
\* object last wrote; no persist has put back a stale copy of another kind's.
C12_NoLostUpdate ==
    (CACHE_MUTEX = "free" /\ cacheFile.state = "ok")
        => \A i \in Insts :
              written[i] # <<>> => cacheFile.scanners[LockKind(i)] = written[i]

\* both kinds have persisted, the second while the first already had
C12_Witness ==
    /\ CACHE_MUTEX = "free"
    /\ cacheFile.state = "ok"
    /\ \A i \in Insts : written[i] # <<>> /\ written[i][1].finished = MaxFlushes

\* the workers that hold a dequeued token whose processing has not ended
TokensInHand ==
    Cardinality({w \in Workers :
                    pc[w] \in {"request", "finally", "save_iter", "save_write",
                               "save_dump", "count", "abort"}})

\* C21: every token dequeued is marked finished exactly once: the finished
\* count is the number of tokens whose processing has ended (those taken off
\* the queue less those still in a worker's hands), and when the pool has
\* joined without abort it is the number of tokens the queue started with.
C21_EveryTokenCounted ==
    /\ (process = "running" /\ scanner.alive)
           => scanner.finished_count =
                  scanner.total_count - Len(words_queue) - TokensInHand
    /\ (main \in {"complete", "merged"} /\ ~SHOULD_ABORT)
           => scanner.finished_count = scanner.total_count

\* C22: with no abort, every worker leaves its loop once the queue is empty
\* and the join of the pool returns: a pool that has started its workers
\* is joined in the end.
C22_PoolJoins ==
    (main = "join") ~> (main # "join" \/ SHOULD_ABORT)

\* a request of the token in the hands of worker w ended in a transient fault
HadFault(w) == \E j \in 1..Len(req_log[w]) : req_log[w][j] \in TransientFaults

\* every request of the token in the hands of worker w did
AllFaulted(w) ==
    /\ Len(req_log[w]) = Len(AttemptList(attempt[w]))
    /\ \A j \in 1..Len(req_log[w]) : req_log[w][j] \in TransientFaults

\* the URLs recorded in the result map
RecordedUrls(rr) ==
    UNION {{rr[j].urls[n] : n \in 1..Len(rr[j].urls)} : j \in 1..Len(rr)}

\* the worker thread has not ended with the token in its hands, and a token
\* all of whose requests faulted is no success and has nothing recorded
FaultedTokenGoesOn ==
    \A w \in Workers :
       /\ HadFault(w) => pc[w] # "raised"
       /\ (AllFaulted(w) /\ pc[w] = "count")
              => /\ ~found_any[w]
                 /\ \A j \in 1..Len(AttemptList(attempt[w])) :
                       AttemptList(attempt[w])[j] \notin RecordedUrls(scanner.ret_results)

\* the step of a request that ends in a transient fault leaves the flag and
\* the result map alone and the worker in its loop over the token
FaultStepSwallowed ==
    \A w \in Workers :
       (Len(req_log'[w]) > Len(req_log[w])
           /\ req_log'[w][Len(req_log'[w])] \in TransientFaults)
          => /\ SHOULD_ABORT' = SHOULD_ABORT
             /\ inst'["a"].ret_results = scanner.ret_results
             /\ pc'[w] \in {"request", "finally", "count"}

\* the count of a token all of whose requests faulted: finished, no success
FaultedTokenCounted ==
    \A w \in Workers :
       (AllFaulted(w) /\ pc[w] = "count" /\ pc'[w] = "loop")
          => /\ inst'["a"].finished_count = scanner.finished_count + 1
             /\ inst'["a"].success_count = scanner.success_count

\* C23: a transient fault on a request is swallowed: the flag stays as it
\* is, the worker does not end and goes on, the token is counted finished,
\* and a token all of whose requests fault is no success and adds nothing
\* to the result map.
C23_TransientFaultSwallowed ==
    /\ []FaultedTokenGoesOn
    /\ [][FaultStepSwallowed /\ FaultedTokenCounted]_vars

\* the URLs of the token in the hands of worker w whose request ended in a
\* redirect loop
RedirectedUrls(w) ==
    {AttemptList(attempt[w])[j] : j \in {n \in 1..Len(req_log[w]) :
                                            req_log[w][n] = TooManyRedirectsSCode}}

\* the URLs recorded under the pseudo-status
UrlsUnder(rr, code) ==
    UNION {{rr[j].urls[n] : n \in 1..Len(rr[j].urls)} :
              j \in {m \in 1..Len(rr) : rr[m].code = code}}

\* the URL is in the result map under the pseudo-status, the token is a
\* success and the worker thread has not ended with the token in its hands
RedirectedTokenGoesOn ==
    \A w \in Workers :
       RedirectedUrls(w) # {}
          => /\ RedirectedUrls(w) \subseteq
                    UrlsUnder(scanner.ret_results, TooManyRedirectsSCode)
             /\ found_any[w]
             /\ pc[w] # "raised"

\* the step of the redirect loop leaves the flag alone and goes on to the
\* flush; the flush of the worker writes the URL to the artifact; the count
\* of the token grows the finished and the success count
RedirectStepRecorded ==
    \A w \in Workers :
       /\ (RedirectedUrls(w) = {} /\ RedirectedUrls(w)' # {})
             => (SHOULD_ABORT' = SHOULD_ABORT /\ pc'[w] = "finally")
       /\ (RedirectedUrls(w) # {} /\ pc[w] = "save_write" /\ pc'[w] = "save_dump")
             => RedirectedUrls(w) \subseteq
                    UrlsUnder(resultsFile'["ContentScanner"].data, TooManyRedirectsSCode)
       /\ (RedirectedUrls(w) # {} /\ pc[w] = "count" /\ pc'[w] = "loop")
             => /\ inst'["a"].finished_count = scanner.finished_count + 1
                /\ inst'["a"].success_count = scanner.success_count + 1

\* C24: a redirect loop on a request puts the URL in the result map under
\* the too-many-redirects pseudo-status, the results are flushed, the token
\* is counted finished and successful, the flag stays as it is and the
\* worker goes on.
C24_RedirectLoopRecorded ==
    /\ []RedirectedTokenGoesOn
    /\ [][RedirectStepRecorded]_vars

\* the fields persist must leave alone are the same in the two records
SameAnchor(r1, r2) ==
    /\ r1.timestamp = r2.timestamp
    /\ r1.wordlist_filehash = r2.wordlist_filehash
    /\ r1.run_id = r2.run_id

\* the step in which object i writes the document
PersistWrites(i) == lpc[i] = "write" /\ lpc'[i] = "idle"

\* the document holds the record of the scan of object i: the one it trusted
\* when it was built, or the one it wrote itself
HoldsOwnRecord(i) ==
    /\ cacheFile.state = "ok"
    /\ cacheFile.scanners[LockKind(i)] # <<>>
    /\ inst[i].use_prev_cache \/ written[i] # <<>>

Redraw == OUTPUT_CONT' # OUTPUT_CONT /\ OUTPUT_LEN' <= OUTPUT_LEN

\* C26: every redraw erases as many terminal lines as the redraw before it
\* wrote, none before the first redraw, also when blocks were registered in
\* between.
C26_ErasesWhatWasWritten ==
    [][Redraw => term'.erased = term.written]_vars

\* the block registered as e
BlockOf(cont, e) == cont[e.type][IndexOf(cont[e.type], e.source)]

\* every registered block once, in the order of registration
InRegistrationOrder(reg, cont) ==
    BlockLines([j \in 1..Len(reg) |-> BlockOf(cont, reg[j])])

\* C27: each redraw writes every registered block exactly once, in the order
\* in which the blocks were registered, each as delimiter, source name and
\* content, for any mix of status and lines blocks.
C27_RedrawInRegistrationOrder ==
    [][Redraw => drawn' = InRegistrationOrder(registered', OUTPUT_CONT')]_vars

\* the threads inside an update: past the mutation, the rewrite not yet done
InUpdate == {t \in 1..NumWorkers : dpc[t] # "idle"}

\* C28: the updates of the dashboard are mutually exclusive: at most one
\* thread is inside an update (mutation, erase, rewrite), and no erase runs
\* between the erase and the rewrite of another update.
C28_UpdatesExclusive ==
    /\ [](Cardinality(InUpdate) <= 1)
    /\ [][\A t \in 1..NumWorkers :
             (dpc[t] = "clear" /\ dpc'[t] = "flush")
                => \A t2 \in 1..NumWorkers \ {t} : dpc[t2] # "flush"]_vars

\* a multiple of the interval lies above the percentage last emitted and not
\* above the new one
Crossed(before, progress, intvl) == \E m \in (before + 1)..progress : m % intvl = 0

\* C29: on a unit completion the progress bar is emitted only when the
\* percentage has crossed a multiple of ProgBarIntvl since the last emitted
\* percentage or when the update is forced; the last emitted percentage
\* never decreases; and an emission that is not forced is of a step value
\* not emitted before.
C29_ProgressBarThrottled ==
    /\ [](\A n \in 1..Len(prog.emitted) :
            LET e == prog.emitted[n]
            IN /\ e.forced \/ Crossed(e.before, e.progress, prog.intvl)
               /\ ~e.forced => \A j \in 1..(n - 1) :
                                  prog.emitted[j].progress < e.progress)
    /\ [][prog'.perc >= prog.perc]_vars

\* every unit is finished, none forced: two progress bars were emitted and
\* some unit completed without one
C29_Witness ==
    /\ prog.finished = prog.total
    /\ Len(prog.emitted) >= 2
    /\ Len(prog.emitted) < prog.finished
    /\ \A n \in 1..Len(prog.emitted) : ~prog.emitted[n].forced

\* the elements of a sequence
Range(q) == {q[j] : j \in 1..Len(q)}

\* the queue the next process would build if the running one were
\* interrupted now: the load of the document on disk, then load_words
QueueOnResume ==
    LET k == "ContentScanner"
        r == _load_cache_if_exists(k, cacheFile, resultsFile[k], wordlistFile,
                                   RUN_ID + 1, now)
    IN load_words(wordlistFile, r.cache_dict.finished).words

\* the token was taken off the queue and every request for it was made: it
\* is not queued and no worker is at its requests or ended over them
Processed(tok) ==
    /\ tok \notin Range(words_queue)
    /\ \A w \in Workers : attempt[w] = tok => pc[w] = "count"

\* C30: resume never skips work that was not done: at whatever point a first
\* run is interrupted, every token of the wordlist that the resumed queue
\* leaves out was completely processed in the interrupted run.
C30_ResumeSkipsOnlyDoneWork ==
    (process = "running" /\ scanner.alive /\ ~scanner.use_prev_cache)
        => \A tok \in Range(wordlistFile.data) \ Range(QueueOnResume) : Processed(tok)

\* the finished count the resumed run of the scenario was given by its load
ResumedFrom == InterruptedDoc.scanners["ContentScanner"][1].finished

\* the ContentScanner record of the readable document on disk, if any
StoredRecord ==
    IF cacheFile.state = "ok" THEN cacheFile.scanners["ContentScanner"] ELSE <<>>

\* C31: the stored finished count never moves backwards while the wordlist is
\* unchanged: a run that resumed from a trusted finished count F never has a
\* finished count lower than F in the document on disk.
C31_FinishedNeverMovesBack ==
    (scanner.alive /\ scanner.use_prev_cache /\ wordlistFile = ScanWordlist
     /\ StoredRecord # <<>>)
        => StoredRecord[1].finished >= ResumedFrom

\* the place of a lock in the order: count lock, progress lock, cache lock
LockRank(l) ==
    CASE l.name = "_count_mutex" -> 1
      [] l.name = "_current_progress_mutex" -> 2
      [] l.name = "_CACHE_MUTEX" -> 3

\* every thread of the set waits for a lock another thread of the set holds
Deadlocked(S) ==
    /\ S # {}
    /\ \A t \in S : Wants(t) # <<>> /\ OtherHolders(t, Wants(t)[1]) \cap S # {}

\* the threads that hold a lock and wait for one another thread holds. The
\* threads of a deadlocked set that hold a lock are a deadlocked set too (each
\* member waits for a member that holds a lock), so a deadlocked set exists
\* exactly when one exists among these threads.
HoldAndWait ==
    {t \in OrderThreads : /\ held[t] # <<>>
                          /\ Wants(t) # <<>>
                          /\ OtherHolders(t, Wants(t)[1]) # {}}

\* C32: a thread asks for a lock only while the locks it holds are not later
\* in the order count lock, progress lock, cache lock; a thread that holds
\* the cache lock asks for no per-scanner lock; and no set of threads is
\* deadlocked.
C32_LockOrderNoDeadlock ==
    /\ \A t \in OrderThreads : \A j \in 1..Len(held[t]) :
           Wants(t) # <<>> => LockRank(held[t][j]) <= LockRank(Wants(t)[1])
    /\ \A t \in OrderThreads :
           (Wants(t) # <<>> /\ \E j \in 1..Len(held[t]) : held[t][j] = CacheMutex)
               => Wants(t)[1] = CacheMutex
    /\ \A S \in SUBSET HoldAndWait : ~Deadlocked(S)

\* a thread inside the persist holds the cache lock twice while a thread of
\* the same object, in a unit completion, holds both of the object's locks and
\* waits for the cache lock, and a thread of the other object waits for it too
C32_Witness ==
    \E t, u, v \in OrderThreads :
        /\ t[1] = u[1] /\ t # u /\ v[1] # t[1]
        /\ held[t] = <<CacheMutex, CacheMutex>>
        /\ held[u] = <<CountMutex(u[1]), ProgressMutex(u[1])>>
        /\ Wants(u) = <<CacheMutex>>
        /\ Wants(v) = <<CacheMutex>>

\* the number of tokens taken off the queue since construction
Dequeued == scanner.total_count - Len(words_queue)

\* C33: in every state of a scanner, 0 <= success count <= finished count <=
\* total count, the queue size at construction; a token is in the hands of at
\* most one worker and no longer in the queue, and the finished count is never
\* above the number of tokens dequeued.
C33_CountsOrdered ==
    scanner.alive =>
        /\ 0 <= scanner.success_count
        /\ scanner.success_count <= scanner.finished_count
        /\ scanner.finished_count <= scanner.total_count
        /\ scanner.finished_count <= Dequeued
        /\ \A w1, w2 \in Workers :
               (w1 # w2 /\ attempt[w1] # 0) => attempt[w1] # attempt[w2]
        /\ \A w \in Workers :
               attempt[w] # 0 => \A j \in 1..Len(words_queue) : words_queue[j] # attempt[w]

\* one token was counted as a success while another worker, with the other
\* token in its hands, is about to count it
C33_Witness ==
    /\ scanner.alive
    /\ scanner.finished_count = 1 /\ scanner.success_count = 1
    /\ \E w \in Workers : pc[w] = "count" /\ attempt[w] # 0

=============================================================================
